---- MODULE Spec2Model ----
(***************************************************************************)
(* A model of the data-loom broker: sessions and their read loops, the     *)
(* handler pipeline, the topic manager and its topics, the asynchronous    *)
(* storage writer and the per-publish watcher goroutines.                  *)
(***************************************************************************)
EXTENDS Integers, Sequences, FiniteSets, TLC

(***************************************************************************)
(* Bounds of the model.                                                    *)
(***************************************************************************)
\* frames read by all read loops together in one behaviour of Spec
MaxRequests == 2
\* frames read in one behaviour of SpecHandlers
MaxHandlerRequests == 1
\* faults in one behaviour: sockets that break, timers (context deadlines,
\* time.After) that expire
MaxFaults == 1
\* frames read in one behaviour of SpecTopics
MaxTopicRequests == 3
\* frames read in one behaviour of SpecUnregister
MaxUnregisterRequests == 4
\* frames read in one behaviour of SpecCleanup
MaxCleanupRequests == 3
\* frames read in one behaviour of SpecLocks
MaxLockRequests == 2
\* frames read in one behaviour of SpecFull
MaxFullRequests == 2

(***************************************************************************)
(* Program constants.                                                      *)
(***************************************************************************)
\* capacity of topicManager.failedClients
FailedChanCap == 100
\* capacity of SqliteStorage.writeQueue
WriteQueueCap == 5000

StatusOK == 200
StatusBadRequest == 400
StatusInternalServerError == 500

(***************************************************************************)
(* JSON.  A JSON value is the set of its <<path, leaf>> entries: a scalar  *)
(* s is {<<<<>>, s>>}, the empty object is {<<<<>>, "{}">>}, and an object *)
(* holds, for each property k, the entries of the property's value with k  *)
(* put in front of their paths.  Arrays count as scalars.                  *)
(***************************************************************************)
Keys == {"m", "n", "x"}
\* the order in which encoding/json writes the properties of a map
KeyOrder == <<"m", "n", "x">>

JScalar(s) == {<< <<>>, s >>}
JEmptyObj == {<< <<>>, "{}" >>}
IsObj(v) == \A e \in v : e[1] # <<>> \/ e[2] = "{}"
JKeys(v) == {e[1][1] : e \in {d \in v : d[1] # <<>>}}
JField(v, k) == {<<Tail(e[1]), e[2]>> : e \in {d \in v : d[1] # <<>> /\ d[1][1] = k}}
\* the object with properties ks, property k holding f[k]
JObj(ks, f) ==
    IF ks = {} THEN JEmptyObj
    ELSE UNION {{<< <<k>> \o e[1], e[2] >> : e \in f[k]} : k \in ks}

\* a nil map[string]any (what Unmarshal of null leaves) and a failed parse
NilMap == {<< <<>>, "nil" >>}
ParseError == {<< <<>>, "error" >>}

(***************************************************************************)
(* json.RawMessage: the text of a data field.  An object's text is the     *)
(* sequence of its <<property, value>> pairs as written, which may repeat  *)
(* a property and need not be sorted.                                      *)
(***************************************************************************)
RawNil == [t |-> "nil", ps |-> <<>>]
RawEmpty == [t |-> "empty", ps |-> <<>>]
RawNull == [t |-> "null", ps |-> <<>>]
RawBad == [t |-> "bad", ps |-> <<>>]
RawObj(ps) == [t |-> "obj", ps |-> ps]

\* the value of the last pair of ps naming k
LastOf(ps, k) ==
    LET idx == {i \in 1..Len(ps) : ps[i][1] = k}
        last == CHOOSE i \in idx : \A j \in idx : j <= i
    IN ps[last][2]

\* parseJSON[map[string]any]
parseJSON(raw) ==
    CASE raw.t = "obj" -> JObj({raw.ps[i][1] : i \in 1..Len(raw.ps)},
                               [k \in Keys |-> IF \E i \in 1..Len(raw.ps) : raw.ps[i][1] = k
                                               THEN LastOf(raw.ps, k) ELSE {}])
      [] raw.t = "null" -> NilMap
      [] OTHER -> ParseError

\* json.Marshal of a map[string]any: properties in sorted order
Marshal(v) ==
    LET ks == SelectSeq(KeyOrder, LAMBDA k : k \in JKeys(v))
    IN RawObj([i \in 1..Len(ks) |-> <<ks[i], JField(v, ks[i])>>])

\* schemasMatch(schema, msg)
RECURSIVE schemasMatch(_, _)
schemasMatch(schema, msg) ==
    /\ Cardinality(JKeys(schema)) = Cardinality(JKeys(msg))
    /\ \A key \in JKeys(schema) :
          /\ key \in JKeys(msg)
          /\ IsObj(JField(schema, key)) =>
                /\ IsObj(JField(msg, key))
                /\ schemasMatch(JField(schema, key), JField(msg, key))

(***************************************************************************)
(* The inputs of the model.                                                *)
(***************************************************************************)
\* session objects (*network.Client), one per connection
Clients == {1, 2}
\* the topic names requests carry: T is the topic the scenarios register
TopicNames == {"T", "U"}
\* values of the ClientId header: none, a name, or the id of a session
Uuid(c) == IF c = 1 THEN "u1" ELSE IF c = 2 THEN "u2" ELSE "u3"
Ids == {"a"} \cup {Uuid(c) : c \in Clients}

ShapeM == JObj({"m"}, [k \in Keys |-> JScalar("s")])
ShapeN == JObj({"n"}, [k \in Keys |-> JScalar("s")])
\* {"m":"v1"}, {"m":"v2"}, {"n":"v1"} and {"m":"v1","m":"v2"}
DataV1 == RawObj(<< <<"m", JScalar("v1")>> >>)
DataV2 == RawObj(<< <<"m", JScalar("v2")>> >>)
DataN == RawObj(<< <<"n", JScalar("v1")>> >>)
DataDup == RawObj(<< <<"m", JScalar("v1")>>, <<"m", JScalar("v2")>> >>)
\* {"m":{"x":"v1"}}
DataNested == RawObj(<< <<"m", JObj({"x"}, [k \in Keys |-> JScalar("v1")])>> >>)

(***************************************************************************)
(* Threads: the read loop of a session (which runs its handlers), and the  *)
(* two watcher goroutines of a publish.                                    *)
(***************************************************************************)
Free == <<"free", 0>>
RL(c) == <<"rl", c>>
HW(id) == <<"hw", id>>

NoRow == RawNil
NoData == {}

VARIABLES
    hub,        \* ClientHub.clients: id -> session, 0 for no entry
    cid,        \* Client.Id of each session object
    hdr,        \* the ClientId header each session was upgraded with
    sock,       \* each session's socket: none, open, how it broke, closed
    pc,         \* where each session's read loop is
    h,          \* locals of the handler each read loop is running
    sendMu,     \* Client.mu: the thread holding it, or Free
    writing,    \* the threads inside Conn.WriteJSON on each socket
    log,        \* the frames written to each socket, with each write's result
    tmMu,       \* topicManager.mu: free, or locked (by a writer that never unlocks)
    topics,     \* topicManager.topics: name -> index in tobjs, 0 for no entry
    tobjs,      \* the Topic objects made so far
    reqs,       \* the frames read so far; a request's id is its index
    pipe,       \* per request: its context, channels and watcher goroutines
    writeQueue, \* SqliteStorage.writeQueue
    db,         \* the messages table: topicName -> data
    closed,     \* SqliteStorage.closed
    database,   \* the backing store: open, or closed by Close
    dbFault,    \* whether statements on the database fail
    puts,       \* the requests whose rows the writer has stored, oldest first
    failedChan, \* topicManager.failedClients
    crashed,    \* a panic outside a handler has ended the process
    nfail,      \* faults so far: sockets broken and timers expired
    budget      \* frames the read loops may still read

vars == <<hub, cid, hdr, sock, pc, h, sendMu, writing, log, tmMu, topics, tobjs,
          reqs, pipe, writeQueue, db, closed, database, dbFault, puts, failedChan,
          crashed,
          nfail, budget>>

sessVars == <<hub, cid, hdr, sock>>
storeVars == <<writeQueue, db, closed, database, dbFault, puts>>
netVars == <<sendMu, writing, log>>
regVars == <<tmMu, topics, tobjs>>

(***************************************************************************)
(* Frames.                                                                 *)
(***************************************************************************)
\* network.Response as the Ack* helpers fill it
Response(id, action, code, note, data) ==
    [kind |-> "response", id |-> id, action |-> action, topic |-> "",
     code |-> code, note |-> note, data |-> data, raw |-> RawNil]
\* AckResponseDatabaseError: Type is "persist"
PersistError(id, note) ==
    [kind |-> "persist", id |-> id, action |-> "persist", topic |-> "",
     code |-> StatusInternalServerError, note |-> note, data |-> NoData, raw |-> RawNil]
\* the outbound WebSocketMessage of sendTopic
Delivery(id, action, topic, raw) ==
    [kind |-> "delivery", id |-> id, action |-> action, topic |-> topic,
     code |-> 0, note |-> "", data |-> NoData, raw |-> raw]
NoFrame == [kind |-> "none", id |-> 0, action |-> "", topic |-> "",
            code |-> 0, note |-> "", data |-> NoData, raw |-> RawNil]

(***************************************************************************)
(* Client.SendJSON: lock the send mutex, write one frame, unlock.          *)
(***************************************************************************)
\* what Conn.WriteJSON returns on session c's socket
WriteResult(c) ==
    CASE sock[c] = "open" -> "ok"
      [] sock[c] \in {"closeNormal", "closeAbnormal"} -> sock[c]
      [] OTHER -> "netErr"
\* websocket.IsCloseError(err, CloseNormalClosure, CloseGoingAway)
IsNormalClose(res) == res = "closeNormal"
\* errors.As(err, &ce) for a *websocket.CloseError
IsCloseError(res) == res \in {"closeNormal", "closeAbnormal"}

\* a send that does not wait for the session's mutex
SendMuIgnored(c) == TRUE
\* c.mu.Lock() in SendJSON can be taken
SendMuFree(c) == sendMu[c] = Free

SendJSONBegin(c, th) ==
    /\ SendMuFree(c)
    /\ sendMu' = [sendMu EXCEPT ![c] = th]
    /\ writing' = [writing EXCEPT ![c] = @ \cup {th}]

\* a write whose frame overtakes the frames written before it
SendJSONEndOvertaking(c, th, frame) ==
    /\ th \in writing[c]
    /\ log' = [log EXCEPT ![c] = <<[f |-> frame, res |-> WriteResult(c)]>> \o @]
    /\ sendMu' = [sendMu EXCEPT ![c] = Free]
    /\ writing' = [writing EXCEPT ![c] = @ \ {th}]

\* WriteJSON returns and c.mu is unlocked
SendJSONEnd(c, th, frame) ==
    /\ th \in writing[c]
    /\ log' = [log EXCEPT ![c] = Append(@, [f |-> frame, res |-> WriteResult(c)])]
    /\ sendMu' = [sendMu EXCEPT ![c] = Free]
    /\ writing' = [writing EXCEPT ![c] = @ \ {th}]

(***************************************************************************)
(* Topic.                                                                  *)
(***************************************************************************)
NewTopic(name, schema) ==
    [name |-> name, subs |-> {}, schemas |-> [v \in {0} |-> schema],
     latest |-> 0, mu |-> Free]

Max(S) == CHOOSE x \in S : \A y \in S : y <= x

\* Topic.GetLatestSchema: the schema, and the latestSchema the call leaves
GetLatestSchema(t) ==
    IF DOMAIN t.schemas = {}
    THEN [err |-> TRUE, version |-> 0, schema |-> {}, latest |-> t.latest]
    ELSE IF t.latest \in DOMAIN t.schemas
    THEN [err |-> FALSE, version |-> t.latest, schema |-> t.schemas[t.latest],
          latest |-> t.latest]
    ELSE LET highest == Max(DOMAIN t.schemas \cup {0})
         IN IF highest \in DOMAIN t.schemas
            THEN [err |-> FALSE, version |-> highest,
                  schema |-> t.schemas[highest], latest |-> highest]
            ELSE [err |-> TRUE, version |-> 0, schema |-> {}, latest |-> highest]

\* Topic.GetSchemaByVersion: reads the entry of latestSchema, whatever
\* versionNumber is
GetSchemaByVersion(t, versionNumber) ==
    IF t.latest \in DOMAIN t.schemas
    THEN [err |-> FALSE, version |-> t.latest, schema |-> t.schemas[t.latest]]
    ELSE [err |-> TRUE, version |-> 0, schema |-> {}]

\* an UpdateSchema that replaces the latest version instead of adding one
TopicUpdateSchemaInPlace(t, schema) ==
    [t EXCEPT !.schemas = [v \in DOMAIN t.schemas |->
                              IF v = t.latest THEN schema ELSE t.schemas[v]]]

\* Topic.UpdateSchema
TopicUpdateSchema(t, schema) ==
    [t EXCEPT !.latest = @ + 1,
              !.schemas = [v \in DOMAIN t.schemas \cup {t.latest + 1} |->
                              IF v = t.latest + 1 THEN schema ELSE t.schemas[v]]]

\* the Topic objects the registry holds
Registered == {topics[n] : n \in {m \in TopicNames : topics[m] # 0}}

(***************************************************************************)
(* Decorators.  registerHandler wraps left to right, so the decorator      *)
(* named last runs first.                                                  *)
(***************************************************************************)
TrimSpace(s) == IF s = " " THEN "" ELSE s

\* the decorators of an action, in the order they run
DecoratorsOf(action) ==
    CASE action \in {"publish", "registerTopic"} -> <<"requireTopic", "requireData">>
      [] action \in {"updateSchema", "sendWithoutSave"} -> <<"requireData", "requireTopic">>
      [] action = "listTopics" -> <<>>
      [] OTHER -> <<"requireTopic">>

\* requireTopicDecorator: "" when the request passes, or the error it answers
requireTopic(msg) ==
    IF TrimSpace(msg.topic) = "" THEN "no topic provided" ELSE ""

\* requireDataDecorator
requireData(msg) ==
    CASE msg.data.t = "nil" -> "message data was null"
      [] msg.data.t = "empty" -> "message data was empty"
      [] parseJSON(msg.data) = ParseError -> "invalid json"
      [] OTHER -> ""

RunDecorator(d, msg) == IF d = "requireTopic" THEN requireTopic(msg) ELSE requireData(msg)

\* the error of the first decorator that rejects msg, "" when all pass
Decorate(msg) ==
    LET ds == DecoratorsOf(msg.action)
        bad == {i \in 1..Len(ds) : RunDecorator(ds[i], msg) # ""}
    IN IF bad = {} THEN ""
       ELSE RunDecorator(ds[CHOOSE i \in bad : \A j \in bad : i <= j], msg)

\* msg.ParsedData as requireDataDecorator leaves it: nil unless it ran
ParsedData(msg) ==
    IF \E i \in 1..Len(DecoratorsOf(msg.action)) : DecoratorsOf(msg.action)[i] = "requireData"
    THEN parseJSON(msg.data) ELSE NilMap

(***************************************************************************)
(* Goroutines that send frames: the read loop of each session and the      *)
(* watcher a publish handler starts.                                       *)
(***************************************************************************)
\* the goroutine of ListenForClientFailuresFromTopicManager and the one
\* StartClientCleanupCrew starts
Listener == <<"listen", 0>>
CleanupCrew == <<"cleanup", 0>>
\* the writer goroutine Open starts, and main, which closes the store
Writer == <<"writer", 0>>
Main == <<"main", 0>>
Threads == {RL(c) : c \in Clients} \cup
           {HW(id) : id \in 1..Max({MaxRequests, MaxHandlerRequests, MaxTopicRequests,
                                     MaxUnregisterRequests, MaxCleanupRequests,
                                     MaxLockRequests, MaxFullRequests})} \cup
           {Listener, CleanupCrew, Writer, Main}
IsReadLoop(th) == th[1] = "rl"
\* the session a goroutine answers to
Owner(th) == IF IsReadLoop(th) THEN th[2] ELSE reqs[th[2]].c

HIdle == [id |-> 0, obj |-> 0, rest |-> {}, failed |-> <<>>, cur |-> 0,
          frame |-> NoFrame, ret |-> "idle", snap |-> {}, after |-> ""]

NoChan == [made |-> FALSE, buf |-> <<>>, closed |-> FALSE]
MakeChan == [made |-> TRUE, buf |-> <<>>, closed |-> FALSE]
\* a channel holding one error, closed
FailedChan(err) == [made |-> TRUE, buf |-> <<err>>, closed |-> TRUE]
CanRecv(ch) == ch.made /\ (ch.buf # <<>> \/ ch.closed)
\* the value a receive yields: the buffered error, nil from a closed channel
RecvVal(ch) == IF ch.buf # <<>> THEN Head(ch.buf) ELSE "nil"
AfterRecv(ch) == IF ch.buf # <<>> THEN [ch EXCEPT !.buf = Tail(@)] ELSE ch

\* context.WithTimeout: cancel ends a context that is still live
Cancel(ctx) == IF ctx = "live" THEN "canceled" ELSE ctx
\* ctx.Done() is closed
Done(ctx) == ctx \in {"canceled", "deadline"}
\* ctx.Err()
CtxErr(ctx) == IF ctx = "canceled" THEN "context canceled" ELSE "context deadline exceeded"

\* per request: ctx and errCh of the handler, dbErrChan and the watcher of
\* sendTopic, what IsSchemaMatch returned and what the topic-manager call
\* returned ("" while not called)
NoPipe == [ctx |-> "none", errCh |-> NoChan, dbCh |-> NoChan, tw |-> "none",
           isMatch |-> "", tm |-> ""]

\* the topic-manager method each handler calls
TMCall(action) ==
    CASE action = "sendWithoutSave" -> "Publish"
      [] action = "publish" -> "Publish"
      [] OTHER -> action
\* Publish passes persist = true to sendTopic, SendWithoutSave false
PersistOf(call) == call = "Publish"

(***************************************************************************)
(* Initial states.                                                         *)
(***************************************************************************)
\* after NewClientHub, NewTopicManager, NewSqliteStorage, NewWebSocketServer
InitEmpty ==
    /\ hub = [i \in Ids |-> 0]
    /\ cid = [c \in Clients |-> ""]
    /\ hdr = [c \in Clients |-> ""]
    /\ sock = [c \in Clients |-> "none"]
    /\ pc = [th \in Threads |-> IF IsReadLoop(th) THEN "new"
                             ELSE IF th = Writer THEN "run" ELSE "none"]
    /\ h = [th \in Threads |-> HIdle]
    /\ sendMu = [c \in Clients |-> Free]
    /\ writing = [c \in Clients |-> {}]
    /\ log = [c \in Clients |-> <<>>]
    /\ tmMu = Free
    /\ topics = [n \in TopicNames |-> 0]
    /\ tobjs = <<>>
    /\ reqs = <<>>
    /\ pipe = <<>>
    /\ writeQueue = <<>>
    /\ db = [n \in TopicNames |-> NoRow]
    /\ closed = FALSE
    /\ database = "open"
    /\ dbFault = FALSE
    /\ puts = <<>>
    /\ failedChan = <<>>
    /\ crashed = FALSE
    /\ nfail = 0
    /\ budget = MaxRequests

\* both sessions connected without a ClientId header, topic T registered with
\* schema ShapeM and subscribed by subs, row its row in the messages table,
\* n frames still to come
RunningWith(subs, fault, row, n, failed) ==
    /\ hub = [i \in Ids |-> IF \E c \in Clients : Uuid(c) = i
                            THEN CHOOSE c \in Clients : Uuid(c) = i ELSE 0]
    /\ cid = [c \in Clients |-> Uuid(c)]
    /\ hdr = [c \in Clients |-> ""]
    /\ sock = [c \in Clients |-> "open"]
    /\ pc = [th \in Threads |-> IF IsReadLoop(th) THEN "idle"
                             ELSE IF th = Writer THEN "run" ELSE "none"]
    /\ h = [th \in Threads |-> HIdle]
    /\ sendMu = [c \in Clients |-> Free]
    /\ writing = [c \in Clients |-> {}]
    /\ log = [c \in Clients |-> <<>>]
    /\ tmMu = Free
    /\ topics = [t \in TopicNames |-> IF t = "T" THEN 1 ELSE 0]
    /\ tobjs = << [NewTopic("T", ShapeM) EXCEPT !.subs = subs] >>
    /\ reqs = <<>>
    /\ pipe = <<>>
    /\ writeQueue = <<>>
    /\ db = [t \in TopicNames |-> IF t = "T" THEN row ELSE NoRow]
    /\ closed = FALSE
    /\ database = "open"
    /\ dbFault = fault
    /\ puts = <<>>
    /\ failedChan = failed
    /\ crashed = FALSE
    /\ nfail = 0
    /\ budget = n

\* the same with an empty failed-peer channel
Running(subs, fault, row, n) == RunningWith(subs, fault, row, n, <<>>)

Init == \E subs \in {{2}, Clients} : Running(subs, FALSE, NoRow, MaxRequests)

(***************************************************************************)
(* Reading a frame and answering it.                                       *)
(***************************************************************************)
\* conn.ReadJSON returns a frame to session c's read loop
CanRead(c) == ~crashed /\ pc[RL(c)] = "idle" /\ sock[c] = "open" /\ budget > 0

\* the WebSocketMessage session c's read loop decodes from input m
Frame(c, m) == [c |-> c, action |-> m.action, topic |-> m.topic, data |-> m.data,
                ack |-> m.ack, bad |-> ""]
\* an input frame
Req(action, topic, data, ack) ==
    [action |-> action, topic |-> topic, data |-> data, ack |-> ack]

StartRequest(msg, p) ==
    /\ reqs' = Append(reqs, msg)
    /\ pipe' = Append(pipe, p)
    /\ budget' = budget - 1

\* the goroutine goes on to send frame to its session with SendToClient and
\* then continues at ret
Answer(th, id, frame, ret) ==
    /\ pc' = [pc EXCEPT ![th] = "sLock"]
    /\ h' = [h EXCEPT ![th] = [@ EXCEPT !.id = id, !.frame = frame, !.ret = ret]]

AckResponseError(th, id, msg, note, ret) ==
    Answer(th, id, Response(id, msg.action, StatusInternalServerError, note, NoData), ret)
\* a rejection answered with the code of an internal error
AckResponseBadRequestAsError(th, id, msg, note, ret) ==
    Answer(th, id, Response(id, msg.action, StatusInternalServerError, note, NoData), ret)
AckResponseBadRequest(th, id, msg, note, ret) ==
    Answer(th, id, Response(id, msg.action, StatusBadRequest, note, NoData), ret)
AckResponseSuccessWithData(th, id, msg, data, ret) ==
    Answer(th, id, Response(id, msg.action, StatusOK, "", data), ret)
\* an acknowledgement sent whatever the request asked for
AckResponseSuccessAlways(th, id, msg, ret) ==
    Answer(th, id, Response(id, msg.action, StatusOK, "", NoData), ret)
\* answers only when the request asked for an acknowledgement
AckResponseSuccess(th, id, msg, ret) ==
    IF msg.ack
    THEN Answer(th, id, Response(id, msg.action, StatusOK, "", NoData), ret)
    ELSE /\ pc' = [pc EXCEPT ![th] = ret]
         /\ h' = [h EXCEPT ![th] = IF ret = "idle" THEN HIdle ELSE [@ EXCEPT !.id = id]]
(***************************************************************************)
(* publishHandler and sendWithoutSaveHandler.  The two functions have the  *)
(* same body; both call topicManager.Publish.                              *)
(***************************************************************************)
\* decorators, the ParsedData check and the registry lookup of
\* getLatestSchemaForTopic
PublishEntry(c, action, menu) ==
    /\ CanRead(c)
    /\ \E m \in {r \in menu : r.action = action} :
          LET msg == Frame(c, m)
              topic == m.topic
              id == Len(reqs) + 1
              bad == Decorate(msg)
              lookup == bad = "" /\ ParsedData(msg) # NilMap
          IN /\ StartRequest(msg, IF ~lookup THEN [NoPipe EXCEPT !.tm = "rejected"]
                                   ELSE IF topics[topic] = 0
                                   THEN [NoPipe EXCEPT !.isMatch = "error"]
                                   ELSE NoPipe)
             /\ IF bad # ""
                THEN AckResponseBadRequest(RL(c), id, msg, bad, "idle")
                ELSE IF ParsedData(msg) = NilMap
                THEN AckResponseBadRequest(RL(c), id, msg, "data payload could not be parsed", "idle")
                ELSE /\ tmMu = Free
                     /\ IF topics[topic] = 0
                        THEN AckResponseBadRequest(RL(c), id, msg, "could not get topic by name", "pPub")
                        ELSE /\ pc' = [pc EXCEPT ![RL(c)] = "pSchema"]
                             /\ h' = [h EXCEPT ![RL(c)] = [HIdle EXCEPT !.id = id, !.obj = topics[topic]]]
    /\ UNCHANGED <<sessVars, netVars, regVars, storeVars, failedChan, crashed, nfail>>

publishHandler(c, menu) == PublishEntry(c, "publish", menu)

sendWithoutSaveHandler(c, menu) == PublishEntry(c, "sendWithoutSave", menu)

\* topicManager.IsSchemaMatch after the lookup: topic.GetLatestSchema and
\* schemasMatch(message, current schema).  The handler answers 400 and goes on.
IsSchemaMatch(c) ==
    /\ ~crashed /\ pc[RL(c)] = "pSchema"
    /\ LET id == h[RL(c)].id
           msg == reqs[id]
           o == h[RL(c)].obj
           r == GetLatestSchema(tobjs[o])
           verdict == IF r.err THEN "error"
                      ELSE IF ~schemasMatch(ParsedData(msg), r.schema) THEN "mismatch"
                      ELSE "ok"
       IN /\ tobjs[o].mu = Free
          /\ tobjs' = [tobjs EXCEPT ![o].latest = r.latest]
          /\ pipe' = [pipe EXCEPT ![id].isMatch = verdict]
          /\ CASE verdict = "error" ->
                    AckResponseBadRequest(RL(c), id, msg, "could not get schema for topic", "pPub")
               [] verdict = "mismatch" ->
                    AckResponseBadRequest(RL(c), id, msg, "schema doesn't match topics current schema", "pPub")
               [] OTHER -> /\ pc' = [pc EXCEPT ![RL(c)] = "pPub"]
                           /\ h' = h
    /\ UNCHANGED <<sessVars, netVars, tmMu, topics, storeVars, reqs, budget,
                   failedChan, crashed, nfail>>

\* SqliteStorage.AsyncPut: the channel it returns
AsyncPutChan ==
    IF closed THEN FailedChan("storage is closed")
    ELSE IF Len(writeQueue) >= WriteQueueCap THEN FailedChan("write queue is full")
    ELSE MakeChan
\* SqliteStorage.AsyncPut: the queue it leaves
AsyncPutQueue(id, key, value) ==
    IF closed \/ Len(writeQueue) >= WriteQueueCap THEN writeQueue
    ELSE Append(writeQueue, [id |-> id, key |-> key, value |-> value])

\* the handler makes ctx and errCh and starts its watcher, then sendTopic
\* looks the topic up and, when persist is set, calls AsyncPut
sendTopic(c) ==
    /\ ~crashed /\ pc[RL(c)] = "pPub" /\ tmMu = Free
    /\ LET id == h[RL(c)].id
           msg == reqs[id]
           persist == PersistOf(TMCall(msg.action))
           started == [pipe[id] EXCEPT !.ctx = "live", !.errCh = MakeChan,
                                       !.tm = IF topics[msg.topic] = 0 THEN "error" ELSE "ok"]
       IN IF topics[msg.topic] = 0
          THEN /\ pipe' = [pipe EXCEPT ![id] = started]
               /\ pc' = [pc EXCEPT ![RL(c)] = "sLock", ![HW(id)] = "wait"]
               /\ h' = [h EXCEPT ![RL(c)] = [@ EXCEPT
                          !.frame = Response(id, msg.action, StatusInternalServerError,
                                             "publish failed. Topic doesn't exist", NoData),
                          !.ret = "pRet"]]
               /\ UNCHANGED writeQueue
          ELSE /\ pipe' = [pipe EXCEPT ![id] =
                              [started EXCEPT !.dbCh = IF persist THEN AsyncPutChan ELSE NoChan]]
               /\ writeQueue' = IF persist
                                THEN AsyncPutQueue(id, msg.topic, ParsedData(msg))
                                ELSE writeQueue
               /\ pc' = [pc EXCEPT ![RL(c)] = "pFan", ![HW(id)] = "wait"]
               /\ h' = [h EXCEPT ![RL(c)] = [@ EXCEPT !.obj = topics[msg.topic]]]
    /\ UNCHANGED <<sessVars, netVars, regVars, db, closed, database, dbFault, puts, reqs,
                   budget,
                   failedChan, crashed, nfail>>
(***************************************************************************)
(* Topic.Publish: under the topic's lock, SendJSON to every subscriber.    *)
(***************************************************************************)
TopicPublishLock(c) ==
    /\ ~crashed /\ pc[RL(c)] = "pFan"
    /\ LET o == h[RL(c)].obj
       IN /\ tobjs[o].mu = Free
          /\ tobjs' = [tobjs EXCEPT ![o].mu = RL(c)]
          /\ h' = [h EXCEPT ![RL(c)] = [@ EXCEPT !.rest = tobjs[o].subs, !.failed = <<>>]]
    /\ pc' = [pc EXCEPT ![RL(c)] = "pIter"]
    /\ UNCHANGED <<sessVars, netVars, tmMu, topics, storeVars, reqs, pipe, budget,
                   failedChan, crashed, nfail>>

\* the range loop reaches a subscriber, in the map's order: SendJSON locks
\* that subscriber's send mutex
TopicPublishNext(c) ==
    /\ ~crashed /\ pc[RL(c)] = "pIter"
    /\ \E target \in h[RL(c)].rest :
          /\ SendJSONBegin(target, RL(c))
          /\ h' = [h EXCEPT ![RL(c)].cur = target]
    /\ pc' = [pc EXCEPT ![RL(c)] = "pWrite"]
    /\ UNCHANGED <<sessVars, log, regVars, storeVars, reqs, pipe, budget,
                   failedChan, crashed, nfail>>

\* WriteJSON of the delivery; only a close error with code 1000 or 1001 puts
\* the subscriber on the failed list
TopicPublishWrite(c) ==
    /\ ~crashed /\ pc[RL(c)] = "pWrite"
    /\ LET id == h[RL(c)].id
           msg == reqs[id]
           target == h[RL(c)].cur
       IN /\ SendJSONEnd(target, RL(c),
                         Delivery(id, msg.action, msg.topic, Marshal(ParsedData(msg))))
          /\ h' = [h EXCEPT ![RL(c)] = [@ EXCEPT
                     !.rest = @ \ {target},
                     !.cur = 0,
                     !.failed = IF IsNormalClose(WriteResult(target))
                                THEN Append(@, target) ELSE @]]
    /\ pc' = [pc EXCEPT ![RL(c)] = "pIter"]
    /\ UNCHANGED <<sessVars, regVars, storeVars, reqs, pipe, budget,
                   failedChan, crashed, nfail>>

\* topicManager.markClientFailed for each failed client in turn: a send that
\* never blocks, the client is dropped when the channel is full
RECURSIVE markClientFailed(_, _)
markClientFailed(ch, failed) ==
    IF failed = <<>> THEN ch
    ELSE markClientFailed(IF Len(ch) < FailedChanCap THEN Append(ch, Head(failed)) ELSE ch,
                          Tail(failed))

\* a sendTopic whose send on the failed-peer channel waits for room
TopicPublishEndBlocking(c) ==
    /\ ~crashed /\ pc[RL(c)] = "pIter" /\ h[RL(c)].rest = {}
    /\ Len(failedChan) + Len(h[RL(c)].failed) <= FailedChanCap
    /\ LET id == h[RL(c)].id
           msg == reqs[id]
           o == h[RL(c)].obj
       IN /\ tobjs' = [tobjs EXCEPT ![o].mu = Free]
          /\ failedChan' = markClientFailed(failedChan, h[RL(c)].failed)
          /\ pipe' = [pipe EXCEPT ![id] =
                         IF pipe[id].dbCh.made
                         THEN [@ EXCEPT !.tw = "wait"]
                         ELSE [@ EXCEPT !.errCh.closed = TRUE]]
          /\ AckResponseSuccess(RL(c), id, msg, "pRet")
    /\ UNCHANGED <<sessVars, netVars, tmMu, topics, storeVars, reqs, budget,
                   crashed, nfail>>

\* the loop is over: Topic.Publish unlocks, sendTopic marks the failed
\* clients and starts its own watcher (or closes errCh), and the handler
\* acknowledges
TopicPublishEnd(c) ==
    /\ ~crashed /\ pc[RL(c)] = "pIter" /\ h[RL(c)].rest = {}
    /\ LET id == h[RL(c)].id
           msg == reqs[id]
           o == h[RL(c)].obj
       IN /\ tobjs' = [tobjs EXCEPT ![o].mu = Free]
          /\ failedChan' = markClientFailed(failedChan, h[RL(c)].failed)
          /\ pipe' = [pipe EXCEPT ![id] =
                         IF pipe[id].dbCh.made
                         THEN [@ EXCEPT !.tw = "wait"]
                         ELSE [@ EXCEPT !.errCh.closed = TRUE]]
          /\ AckResponseSuccess(RL(c), id, msg, "pRet")
    /\ UNCHANGED <<sessVars, netVars, tmMu, topics, storeVars, reqs, budget,
                   crashed, nfail>>

\* the handler returns: its deferred cancel ends ctx
HandlerReturn(c) ==
    /\ ~crashed /\ pc[RL(c)] = "pRet"
    /\ pipe' = [pipe EXCEPT ![h[RL(c)].id].ctx = Cancel(@)]
    /\ pc' = [pc EXCEPT ![RL(c)] = "idle"]
    /\ h' = [h EXCEPT ![RL(c)] = HIdle]
    /\ UNCHANGED <<sessVars, netVars, regVars, storeVars, reqs, budget,
                   failedChan, crashed, nfail>>

(***************************************************************************)
(* SendToClient, by a read loop or by a handler's watcher.                 *)
(***************************************************************************)
SendToClientLock(th) ==
    /\ ~crashed /\ pc[th] = "sLock"
    /\ SendJSONBegin(Owner(th), th)
    /\ pc' = [pc EXCEPT ![th] = "sWrite"]
    /\ UNCHANGED <<sessVars, h, log, regVars, storeVars, reqs, pipe, budget,
                   failedChan, crashed, nfail>>

\* WriteJSON, then on an error handleWebSocketError: a close error starts
\* UnsubscribeAll and, handleWebSocketError having returned false,
\* MarkClientFailed; any other error is logged and the caller goes on
SendToClientWrite(th) ==
    /\ ~crashed /\ pc[th] = "sWrite"
    /\ SendJSONEnd(Owner(th), th, h[th].frame)
    /\ IF IsCloseError(WriteResult(Owner(th)))
       THEN /\ pc' = [pc EXCEPT ![th] = "uaSnap"]
            /\ h' = [h EXCEPT ![th].after = "markFailed"]
       ELSE /\ pc' = [pc EXCEPT ![th] = h[th].ret]
            /\ h' = [h EXCEPT ![th] = IF h[th].ret \in {"idle", "done"} THEN HIdle ELSE @]
    /\ UNCHANGED <<sessVars, regVars, storeVars, reqs, pipe, budget,
                   failedChan, crashed, nfail>>

\* an UnsubscribeAll whose copy of the registry misses every topic
UnsubscribeAllSnapEmpty(th) ==
    /\ ~crashed /\ pc[th] = "uaSnap" /\ tmMu = Free
    /\ h' = [h EXCEPT ![th].snap = {}]
    /\ pc' = [pc EXCEPT ![th] = "uaNext"]
    /\ UNCHANGED <<sessVars, netVars, regVars, storeVars, reqs, pipe, budget,
                   failedChan, crashed, nfail>>

\* topicManager.UnsubscribeAll: the snapshot of the registry under its lock
UnsubscribeAllSnap(th) ==
    /\ ~crashed /\ pc[th] = "uaSnap" /\ tmMu = Free
    /\ h' = [h EXCEPT ![th].snap = Registered]
    /\ pc' = [pc EXCEPT ![th] = "uaNext"]
    /\ UNCHANGED <<sessVars, netVars, regVars, storeVars, reqs, pipe, budget,
                   failedChan, crashed, nfail>>

\* topic.Unsubscribe on the next topic of the snapshot, its error ignored;
\* after the last one the caller goes on
UnsubscribeAllNext(th) ==
    /\ ~crashed /\ pc[th] = "uaNext"
    /\ IF h[th].snap = {}
       THEN /\ pc' = [pc EXCEPT ![th] = h[th].after]
            /\ h' = [h EXCEPT ![th] = IF h[th].after = "idle" THEN HIdle ELSE @]
            /\ tobjs' = tobjs
       ELSE \E o \in h[th].snap :
               /\ tobjs[o].mu = Free
               /\ tobjs' = [tobjs EXCEPT ![o].subs = @ \ {Owner(th)}]
               /\ h' = [h EXCEPT ![th].snap = @ \ {o}]
               /\ pc' = pc
    /\ UNCHANGED <<sessVars, netVars, tmMu, topics, storeVars, reqs, pipe, budget,
                   failedChan, crashed, nfail>>

\* WebSocketServer.MarkClientFailed: failedClients is never made, the write
\* to the nil map panics.  net/http recovers a panic of the session's own
\* goroutine and the deferred calls run; in any other goroutine it ends the
\* process.
MarkClientFailed(th) ==
    /\ ~crashed /\ pc[th] = "markFailed"
    /\ IF IsReadLoop(th)
       THEN /\ pc' = [pc EXCEPT ![th] = "teardown"]
            /\ UNCHANGED crashed
       ELSE /\ crashed' = TRUE
            /\ pc' = [pc EXCEPT ![th] = "done"]
    /\ UNCHANGED <<sessVars, h, netVars, regVars, storeVars, reqs, pipe, budget,
                   failedChan, nfail>>

\* the deferred calls of handleWebSocket and of the handler it was in:
\* cancel, hub.RemoveClient, conn.Close
Teardown(c) ==
    /\ ~crashed /\ pc[RL(c)] = "teardown"
    /\ hub' = [hub EXCEPT ![cid[c]] = 0]
    /\ sock' = [sock EXCEPT ![c] = "closed"]
    /\ pipe' = IF h[RL(c)].id # 0
               THEN [pipe EXCEPT ![h[RL(c)].id].ctx = Cancel(@)] ELSE pipe
    /\ pc' = [pc EXCEPT ![RL(c)] = "dead"]
    /\ h' = [h EXCEPT ![RL(c)] = HIdle]
    /\ UNCHANGED <<cid, hdr, netVars, regVars, storeVars, reqs, budget,
                   failedChan, crashed, nfail>>

\* a read loop that breaks on a close error without UnsubscribeAll
handleWebSocketErrorBreakOnly(c) ==
    /\ ~crashed /\ pc[RL(c)] = "idle" /\ IsCloseError(WriteResult(c))
    /\ pc' = [pc EXCEPT ![RL(c)] = "teardown"]
    /\ h' = [h EXCEPT ![RL(c)] = HIdle]
    /\ UNCHANGED <<sessVars, netVars, regVars, storeVars, reqs, pipe, budget,
                   failedChan, crashed, nfail>>

\* ReadJSON returns a close error: handleWebSocketError runs UnsubscribeAll
\* and the loop breaks
handleWebSocketError(c) ==
    /\ ~crashed /\ pc[RL(c)] = "idle" /\ IsCloseError(WriteResult(c))
    /\ pc' = [pc EXCEPT ![RL(c)] = "uaSnap"]
    /\ h' = [h EXCEPT ![RL(c)] = [HIdle EXCEPT !.after = "teardown"]]
    /\ UNCHANGED <<sessVars, netVars, regVars, storeVars, reqs, pipe, budget,
                   failedChan, crashed, nfail>>

\* the id of the response to a frame that could not be decoded: "UNKNOWN"
\* (the ids of decoded frames are their indexes in reqs)
UnknownId == 0 - 1
\* what json.Decoder.Decode returns for a text frame that is no
\* WebSocketMessage: malformed text, a value of the wrong type for a field,
\* or text that ends early
DecodeKinds == {"syntax", "shape", "truncated"}
DecodeError(kind) ==
    CASE kind = "syntax" -> "SyntaxError"
      [] kind = "shape" -> "UnmarshalTypeError"
      [] OTHER -> "ErrUnexpectedEOF"
\* the frame read loop c could not decode, as reqs records it
Undecoded(c, kind) ==
    [c |-> c, action |-> "", topic |-> "", data |-> RawNil, ack |-> FALSE, bad |-> kind]

\* ReadJSON returns a decoding error: for a json.SyntaxError and a
\* json.UnmarshalTypeError handleWebSocketError sends the response with Id
\* "UNKNOWN", Type "UNKOWN" and code 400; any other error is only logged.
\* It returns true and the loop goes on.
handleWebSocketErrorDecode(c) ==
    /\ CanRead(c)
    /\ \E kind \in DecodeKinds :
          LET id == Len(reqs) + 1
          IN /\ StartRequest(Undecoded(c, kind), [NoPipe EXCEPT !.tm = "rejected"])
             /\ IF DecodeError(kind) \in {"SyntaxError", "UnmarshalTypeError"}
                THEN Answer(RL(c), id,
                            Response(UnknownId, "UNKOWN", StatusBadRequest, "", NoData),
                            "idle")
                ELSE /\ pc' = pc
                     /\ h' = h
    /\ UNCHANGED <<sessVars, netVars, regVars, storeVars, failedChan, crashed, nfail>>

\* ReadJSON returns an error that is no close error: handleWebSocketError
\* logs it and returns true, and the loop calls ReadJSON again on the failed
\* connection, which returns the same error each time until the connection
\* panics on the repeated read.  net/http recovers the panic and the
\* deferred calls of handleWebSocket run; UnsubscribeAll is not called.
ReadFailure(c) ==
    /\ ~crashed /\ pc[RL(c)] = "idle" /\ sock[c] = "netErr"
    /\ pc' = [pc EXCEPT ![RL(c)] = "teardown"]
    /\ h' = [h EXCEPT ![RL(c)] = HIdle]
    /\ UNCHANGED <<sessVars, netVars, regVars, storeVars, reqs, pipe, budget,
                   failedChan, crashed, nfail>>

\* the peer or the network breaks session c's socket.  The program sees a
\* broken socket only in WriteJSON and ReadJSON, so the break is taken when
\* one of them is under way.
SockFail(c) ==
    /\ ~crashed /\ sock[c] = "open" /\ nfail < MaxFaults
    /\ writing[c] # {} \/ pc[RL(c)] = "idle"
    /\ \E mode \in {"closeNormal", "closeAbnormal", "netErr"} :
          sock' = [sock EXCEPT ![c] = mode]
    /\ nfail' = nfail + 1
    /\ UNCHANGED <<hub, cid, hdr, pc, h, netVars, regVars, storeVars, reqs, pipe,
                   budget, failedChan, crashed>>
(***************************************************************************)
(* The goroutine of publishHandler that waits on errCh and ctx.            *)
(***************************************************************************)
HandlerWatcherRecv(id) ==
    /\ ~crashed /\ pc[HW(id)] = "wait" /\ CanRecv(pipe[id].errCh)
    /\ pipe' = [pipe EXCEPT ![id].errCh = AfterRecv(@)]
    /\ IF RecvVal(pipe[id].errCh) # "nil"
       THEN Answer(HW(id), id, PersistError(id, RecvVal(pipe[id].errCh)), "done")
       ELSE /\ pc' = [pc EXCEPT ![HW(id)] = "done"]
            /\ h' = h
    /\ UNCHANGED <<sessVars, netVars, regVars, storeVars, reqs, budget,
                   failedChan, crashed, nfail>>

\* a watcher that ends silently when the handler's context is done
HandlerWatcherCtxDoneSilent(id) ==
    /\ ~crashed /\ pc[HW(id)] = "wait" /\ Done(pipe[id].ctx)
    /\ pc' = [pc EXCEPT ![HW(id)] = "done"]
    /\ UNCHANGED <<sessVars, h, netVars, regVars, storeVars, reqs, pipe, budget,
                   failedChan, crashed, nfail>>

HandlerWatcherCtxDone(id) ==
    /\ ~crashed /\ pc[HW(id)] = "wait" /\ Done(pipe[id].ctx)
    /\ Answer(HW(id), id, PersistError(id, "timeout when persisting"), "done")
    /\ UNCHANGED <<sessVars, netVars, regVars, storeVars, reqs, pipe, budget,
                   failedChan, crashed, nfail>>

\* the 2 s of context.WithTimeout pass
CtxDeadline(id) ==
    /\ ~crashed /\ pipe[id].ctx = "live" /\ nfail < MaxFaults
    /\ pipe' = [pipe EXCEPT ![id].ctx = "deadline"]
    /\ nfail' = nfail + 1
    /\ UNCHANGED <<sessVars, pc, h, netVars, regVars, storeVars, reqs, budget,
                   failedChan, crashed>>

(***************************************************************************)
(* The goroutine of sendTopic that forwards the storage result to errCh.   *)
(***************************************************************************)
SendTopicWatcherRecv(id) ==
    /\ ~crashed /\ pipe[id].tw = "wait" /\ CanRecv(pipe[id].dbCh)
    /\ pipe' = [pipe EXCEPT ![id] = [@ EXCEPT
                   !.dbCh = AfterRecv(@),
                   !.errCh = [made |-> TRUE,
                              buf |-> IF RecvVal(pipe[id].dbCh) # "nil"
                                      THEN Append(@.buf, "database error") ELSE @.buf,
                              closed |-> TRUE],
                   !.tw = "done"]]
    /\ UNCHANGED <<sessVars, pc, h, netVars, regVars, storeVars, reqs, budget,
                   failedChan, crashed, nfail>>

\* time.After(2 s) fires first
SendTopicWatcherTimeout(id) ==
    /\ ~crashed /\ pipe[id].tw = "wait" /\ nfail < MaxFaults
    /\ pipe' = [pipe EXCEPT ![id] = [@ EXCEPT
                   !.errCh = [made |-> TRUE,
                              buf |-> Append(@.buf, "timeout waiting for database ack"),
                              closed |-> TRUE],
                   !.tw = "done"]]
    /\ nfail' = nfail + 1
    /\ UNCHANGED <<sessVars, pc, h, netVars, regVars, storeVars, reqs, budget,
                   failedChan, crashed>>

(***************************************************************************)
(* SqliteStorage: the writer goroutine and Get.                            *)
(***************************************************************************)
\* a statement of put fails: the database fails, or Close has closed it
PutFails == dbFault \/ database = "closed"

\* one turn of the writer's loop
startWriter ==
    /\ ~crashed /\ pc[Writer] = "run" /\ writeQueue # <<>>
    /\ LET req == Head(writeQueue)
       IN IF Done(pipe[req.id].ctx)
          THEN /\ pipe' = [pipe EXCEPT ![req.id].dbCh.buf = Append(@, CtxErr(pipe[req.id].ctx))]
               /\ UNCHANGED <<db, puts>>
          ELSE /\ pipe' = [pipe EXCEPT ![req.id].dbCh =
                              [made |-> TRUE,
                               buf |-> Append(@.buf, IF PutFails THEN "sql error" ELSE "nil"),
                               closed |-> TRUE]]
               /\ db' = IF PutFails THEN db ELSE [db EXCEPT ![req.key] = Marshal(req.value)]
               /\ puts' = IF PutFails THEN puts ELSE Append(puts, req.id)
    /\ writeQueue' = Tail(writeQueue)
    /\ UNCHANGED <<sessVars, pc, h, netVars, regVars, closed, database, dbFault, reqs,
                   budget, failedChan, crashed, nfail>>

\* the writer receives from the closed and drained queue and returns
startWriterQueueClosed ==
    /\ ~crashed /\ pc[Writer] = "run" /\ closed /\ writeQueue = <<>>
    /\ pc' = [pc EXCEPT ![Writer] = "stopped"]
    /\ UNCHANGED <<sessVars, h, netVars, regVars, storeVars, reqs, pipe, budget,
                   failedChan, crashed, nfail>>

\* the context Open was given is cancelled and the writer's select takes
\* that case: the writer returns, whatever the queue holds
startWriterCtxDone ==
    /\ ~crashed /\ pc[Writer] = "run"
    /\ pc' = [pc EXCEPT ![Writer] = "stopped"]
    /\ UNCHANGED <<sessVars, h, netVars, regVars, storeVars, reqs, pipe, budget,
                   failedChan, crashed, nfail>>

\* SqliteStorage.Close, first half: under mu, close the queue once
CloseQueue ==
    /\ ~crashed /\ pc[Main] \in {"none", "closed"}
    /\ closed' = TRUE
    /\ pc' = [pc EXCEPT ![Main] = IF pc[Main] = "none" THEN "close" ELSE "closeAgain"]
    /\ UNCHANGED <<sessVars, h, netVars, regVars, writeQueue, db, database, dbFault,
                   puts, reqs, pipe, budget, failedChan, crashed, nfail>>

\* SqliteStorage.Close, second half: close the backing store and return
CloseDatabase ==
    /\ ~crashed /\ pc[Main] \in {"close", "closeAgain"}
    /\ database' = "closed"
    /\ pc' = [pc EXCEPT ![Main] = IF pc[Main] = "close" THEN "closed" ELSE "closedAgain"]
    /\ UNCHANGED <<sessVars, h, netVars, regVars, writeQueue, db, closed, dbFault,
                   puts, reqs, pipe, budget, failedChan, crashed, nfail>>

\* SqliteStorage.Get: the newest row of the key, unmarshalled; nil for no row
StorageGet(key) == IF db[key] = NoRow THEN NilMap ELSE parseJSON(db[key])

\* getHandler: topicManager.Get and the response that always carries data
getHandler(c, menu) ==
    /\ CanRead(c)
    /\ \E m \in {r \in menu : r.action = "get"} :
          LET msg == Frame(c, m)
              topic == m.topic
              id == Len(reqs) + 1
              bad == Decorate(msg)
              ok == bad = "" /\ topics[topic] # 0 /\ ~dbFault
          IN /\ StartRequest(msg, [NoPipe EXCEPT !.tm = IF bad # "" THEN "rejected"
                                                          ELSE IF ok THEN "ok" ELSE "error"])
             /\ IF bad # ""
                THEN AckResponseBadRequest(RL(c), id, msg, bad, "idle")
                ELSE /\ tmMu = Free
                     /\ IF topics[topic] = 0
                        THEN AckResponseError(RL(c), id, msg, "topic doesn't exist", "idle")
                        ELSE IF dbFault
                        THEN AckResponseError(RL(c), id, msg, "couldn't get value for topic", "idle")
                        ELSE AckResponseSuccessWithData(RL(c), id, msg, StorageGet(topic), "idle")
    /\ UNCHANGED <<sessVars, netVars, regVars, storeVars, failedChan, crashed, nfail>>

(***************************************************************************)
(* subscribeHandler, unsubscribeHandler, updateSchemaHandler: a registry   *)
(* lookup, then one call on the topic under the topic's lock.              *)
(***************************************************************************)
\* the handlers that answer 400 themselves when ParsedData is nil
ChecksParsedData(action) ==
    action \in {"publish", "sendWithoutSave", "registerTopic", "updateSchema"}

\* "" when the handler gets to call the topic manager, or the 400 it answers
Rejection(msg) ==
    IF Decorate(msg) # "" THEN Decorate(msg)
    ELSE IF ChecksParsedData(msg.action) /\ ParsedData(msg) = NilMap
    THEN "data payload could not be parsed"
    ELSE ""

\* a lookup that keeps the registry lock while the topic is worked on
LookupEntryHolding(c, action, menu, next) ==
    /\ CanRead(c)
    /\ \E m \in {r \in menu : r.action = action} :
          LET msg == Frame(c, m)
              id == Len(reqs) + 1
              bad == Rejection(msg)
          IN /\ StartRequest(msg, [NoPipe EXCEPT !.tm =
                                      IF bad # "" THEN "rejected"
                                      ELSE IF topics[m.topic] = 0 THEN "error" ELSE ""])
             /\ IF bad # ""
                THEN /\ AckResponseBadRequest(RL(c), id, msg, bad, "idle")
                     /\ tmMu' = tmMu
                ELSE /\ tmMu = Free
                     /\ IF topics[m.topic] = 0
                        THEN /\ AckResponseError(RL(c), id, msg, "topic doesn't exist", "idle")
                             /\ tmMu' = tmMu
                        ELSE /\ pc' = [pc EXCEPT ![RL(c)] = next]
                             /\ h' = [h EXCEPT ![RL(c)] =
                                         [HIdle EXCEPT !.id = id, !.obj = topics[m.topic]]]
                             /\ tmMu' = RL(c)
    /\ UNCHANGED <<sessVars, netVars, topics, tobjs, storeVars, failedChan, crashed, nfail>>

\* decorators and the lookup in Subscribe / Unsubscribe / UpdateSchema,
\* which return an error for a name that is not registered
LookupEntry(c, action, menu, next) ==
    /\ CanRead(c)
    /\ \E m \in {r \in menu : r.action = action} :
          LET msg == Frame(c, m)
              id == Len(reqs) + 1
              bad == Rejection(msg)
          IN /\ StartRequest(msg, [NoPipe EXCEPT !.tm =
                                      IF bad # "" THEN "rejected"
                                      ELSE IF topics[m.topic] = 0 THEN "error" ELSE ""])
             /\ IF bad # ""
                THEN AckResponseBadRequest(RL(c), id, msg, bad, "idle")
                ELSE /\ tmMu = Free
                     /\ IF topics[m.topic] = 0
                        THEN AckResponseError(RL(c), id, msg, "topic doesn't exist", "idle")
                        ELSE /\ pc' = [pc EXCEPT ![RL(c)] = next]
                             /\ h' = [h EXCEPT ![RL(c)] =
                                         [HIdle EXCEPT !.id = id, !.obj = topics[m.topic]]]
    /\ UNCHANGED <<sessVars, netVars, regVars, storeVars, failedChan, crashed, nfail>>

subscribeHandler(c, menu) == LookupEntry(c, "subscribe", menu, "subTopic")
unsubscribeHandler(c, menu) == LookupEntry(c, "unsubscribe", menu, "unsubTopic")
updateSchemaHandler(c, menu) == LookupEntry(c, "updateSchema", menu, "updTopic")

\* a Subscribe that fails for a session already in the set
TopicSubscribeOnce(c) ==
    /\ ~crashed /\ pc[RL(c)] = "subTopic"
    /\ LET id == h[RL(c)].id
           o == h[RL(c)].obj
       IN /\ tobjs[o].mu = Free
          /\ tobjs' = [tobjs EXCEPT ![o].subs = @ \cup {c}]
          /\ IF c \in tobjs[o].subs
             THEN /\ pipe' = [pipe EXCEPT ![id].tm = "error"]
                  /\ AckResponseError(RL(c), id, reqs[id], "already subscribed", "idle")
             ELSE /\ pipe' = [pipe EXCEPT ![id].tm = "ok"]
                  /\ AckResponseSuccess(RL(c), id, reqs[id], "idle")
    /\ UNCHANGED <<sessVars, netVars, tmMu, topics, storeVars, reqs, budget,
                   failedChan, crashed, nfail>>

\* Topic.Subscribe, then the acknowledgement
TopicSubscribe(c) ==
    /\ ~crashed /\ pc[RL(c)] = "subTopic"
    /\ LET id == h[RL(c)].id
           o == h[RL(c)].obj
       IN /\ tobjs[o].mu = Free
          /\ tobjs' = [tobjs EXCEPT ![o].subs = @ \cup {c}]
          /\ pipe' = [pipe EXCEPT ![id].tm = "ok"]
          /\ AckResponseSuccess(RL(c), id, reqs[id], "idle")
    /\ UNCHANGED <<sessVars, netVars, tmMu, topics, storeVars, reqs, budget,
                   failedChan, crashed, nfail>>

\* an Unsubscribe that succeeds for a session that is not in the set
TopicUnsubscribeLenient(c) ==
    /\ ~crashed /\ pc[RL(c)] = "unsubTopic"
    /\ LET id == h[RL(c)].id
           o == h[RL(c)].obj
       IN /\ tobjs[o].mu = Free
          /\ tobjs' = [tobjs EXCEPT ![o].subs = @ \ {c}]
          /\ pipe' = [pipe EXCEPT ![id].tm = "ok"]
          /\ AckResponseSuccess(RL(c), id, reqs[id], "idle")
    /\ UNCHANGED <<sessVars, netVars, tmMu, topics, storeVars, reqs, budget,
                   failedChan, crashed, nfail>>

\* Topic.Unsubscribe: an error when the client is not subscribed
TopicUnsubscribe(c) ==
    /\ ~crashed /\ pc[RL(c)] = "unsubTopic"
    /\ LET id == h[RL(c)].id
           o == h[RL(c)].obj
       IN /\ tobjs[o].mu = Free
          /\ IF c \in tobjs[o].subs
             THEN /\ tobjs' = [tobjs EXCEPT ![o].subs = @ \ {c}]
                  /\ pipe' = [pipe EXCEPT ![id].tm = "ok"]
                  /\ AckResponseSuccess(RL(c), id, reqs[id], "idle")
             ELSE /\ tobjs' = tobjs
                  /\ pipe' = [pipe EXCEPT ![id].tm = "error"]
                  /\ AckResponseError(RL(c), id, reqs[id], "client is not subscribed", "idle")
    /\ UNCHANGED <<sessVars, netVars, tmMu, topics, storeVars, reqs, budget,
                   failedChan, crashed, nfail>>

\* Topic.UpdateSchema with the parsed data as the next version
TopicUpdate(c) ==
    /\ ~crashed /\ pc[RL(c)] = "updTopic"
    /\ LET id == h[RL(c)].id
           o == h[RL(c)].obj
       IN /\ tobjs[o].mu = Free
          /\ tobjs' = [tobjs EXCEPT ![o] = TopicUpdateSchema(@, ParsedData(reqs[id]))]
          /\ pipe' = [pipe EXCEPT ![id].tm = "ok"]
          /\ AckResponseSuccess(RL(c), id, reqs[id], "idle")
    /\ UNCHANGED <<sessVars, netVars, tmMu, topics, storeVars, reqs, budget,
                   failedChan, crashed, nfail>>

(***************************************************************************)
(* unsubscribeAllHandler: registered behind requireTopicDecorator.         *)
(***************************************************************************)
unsubscribeAllHandler(c, menu) ==
    /\ CanRead(c)
    /\ \E m \in {r \in menu : r.action = "unsubscribeAll"} :
          LET msg == Frame(c, m)
              id == Len(reqs) + 1
              bad == Rejection(msg)
          IN /\ StartRequest(msg, [NoPipe EXCEPT !.tm = IF bad # "" THEN "rejected" ELSE "ok"])
             /\ IF bad # ""
                THEN AckResponseBadRequest(RL(c), id, msg, bad, "idle")
                ELSE /\ pc' = [pc EXCEPT ![RL(c)] = "uaSnap"]
                     /\ h' = [h EXCEPT ![RL(c)] =
                                 [HIdle EXCEPT
                                     !.id = id,
                                     !.after = IF msg.ack THEN "sLock" ELSE "idle",
                                     !.frame = Response(id, msg.action, StatusOK, "", NoData)]]
    /\ UNCHANGED <<sessVars, netVars, regVars, storeVars, failedChan, crashed, nfail>>

(***************************************************************************)
(* registerTopicHandler and topicManager.RegisterTopic.                    *)
(***************************************************************************)
\* json.Marshal of a *Topic: the struct has no exported field
TopicJSON(t) == JEmptyObj

\* a registerTopicHandler that answers every successful RegisterTopic
RegisterSuccessAlways(c, id, t) ==
    AckResponseSuccessWithData(RL(c), id, reqs[id], TopicJSON(t), "idle")

\* the handler answers a successful RegisterTopic only when the request
\* asked for an acknowledgement
RegisterSuccess(c, id, t) ==
    IF reqs[id].ack
    THEN AckResponseSuccessWithData(RL(c), id, reqs[id], TopicJSON(t), "idle")
    ELSE /\ pc' = [pc EXCEPT ![RL(c)] = "idle"]
         /\ h' = [h EXCEPT ![RL(c)] = HIdle]

registerTopicHandler(c, menu) ==
    /\ CanRead(c)
    /\ \E m \in {r \in menu : r.action = "registerTopic"} :
          LET msg == Frame(c, m)
              id == Len(reqs) + 1
              bad == Rejection(msg)
          IN /\ StartRequest(msg, [NoPipe EXCEPT !.tm = IF bad # "" THEN "rejected" ELSE ""])
             /\ IF bad # ""
                THEN AckResponseBadRequest(RL(c), id, msg, bad, "idle")
                ELSE /\ tmMu = Free
                     /\ pc' = [pc EXCEPT ![RL(c)] =
                                  IF topics[m.topic] = 0 THEN "regStore" ELSE "regExisting"]
                     /\ h' = [h EXCEPT ![RL(c)] =
                                 [HIdle EXCEPT !.id = id, !.obj = topics[m.topic]]]
    /\ UNCHANGED <<sessVars, netVars, regVars, storeVars, failedChan, crashed, nfail>>

\* a RegisterTopic that stores the schema of every call on a registered
\* name as a new version
RegisterTopicExistingUpdating(c) ==
    /\ ~crashed /\ pc[RL(c)] = "regExisting"
    /\ LET id == h[RL(c)].id
           o == h[RL(c)].obj
       IN /\ tobjs[o].mu = Free
          /\ tobjs' = [tobjs EXCEPT ![o] = TopicUpdateSchema(@, ParsedData(reqs[id]))]
          /\ pipe' = [pipe EXCEPT ![id].tm = "ok"]
          /\ RegisterSuccess(c, id, tobjs[o])
    /\ UNCHANGED <<sessVars, netVars, tmMu, topics, storeVars, reqs, budget,
                   failedChan, crashed, nfail>>

\* the name is registered: the same schema returns the topic, another one
\* is an error, and a topic without a schema gets this one
RegisterTopicExisting(c) ==
    /\ ~crashed /\ pc[RL(c)] = "regExisting"
    /\ LET id == h[RL(c)].id
           o == h[RL(c)].obj
           r == GetLatestSchema(tobjs[o])
           healed == [tobjs[o] EXCEPT !.latest = r.latest]
       IN /\ tobjs[o].mu = Free
          /\ IF r.err
             THEN /\ tobjs' = [tobjs EXCEPT ![o] = TopicUpdateSchema(healed, ParsedData(reqs[id]))]
                  /\ pipe' = [pipe EXCEPT ![id].tm = "ok"]
                  /\ RegisterSuccess(c, id, healed)
             ELSE /\ tobjs' = [tobjs EXCEPT ![o] = healed]
                  /\ IF schemasMatch(r.schema, ParsedData(reqs[id]))
                     THEN /\ pipe' = [pipe EXCEPT ![id].tm = "ok"]
                          /\ RegisterSuccess(c, id, healed)
                     ELSE /\ pipe' = [pipe EXCEPT ![id].tm = "error"]
                          /\ AckResponseError(RL(c), id, reqs[id],
                                              "topic already exists with different schema", "idle")
    /\ UNCHANGED <<sessVars, netVars, tmMu, topics, storeVars, reqs, budget,
                   failedChan, crashed, nfail>>

\* a RegisterTopic that brings back the Topic object the name had before
RegisterTopicStoreReviving(c) ==
    /\ ~crashed /\ pc[RL(c)] = "regStore"
    /\ LET id == h[RL(c)].id
           old == {o \in 1..Len(tobjs) : tobjs[o].name = reqs[id].topic}
           t == NewTopic(reqs[id].topic, ParsedData(reqs[id]))
       IN /\ tobjs' = IF old = {} THEN Append(tobjs, t) ELSE tobjs
          /\ topics' = [topics EXCEPT ![reqs[id].topic] =
                            IF old = {} THEN Len(tobjs) + 1 ELSE Max(old)]
          /\ pipe' = [pipe EXCEPT ![id].tm = "ok"]
          /\ RegisterSuccess(c, id, t)
    /\ UNCHANGED <<sessVars, netVars, tmMu, storeVars, reqs, budget,
                   failedChan, crashed, nfail>>

\* the name is not registered: NewTopic, and the write to tm.topics that
\* takes no lock
RegisterTopicStore(c) ==
    /\ ~crashed /\ pc[RL(c)] = "regStore"
    /\ LET id == h[RL(c)].id
           t == NewTopic(reqs[id].topic, ParsedData(reqs[id]))
       IN /\ tobjs' = Append(tobjs, t)
          /\ topics' = [topics EXCEPT ![reqs[id].topic] = Len(tobjs) + 1]
          /\ pipe' = [pipe EXCEPT ![id].tm = "ok"]
          /\ RegisterSuccess(c, id, t)
    /\ UNCHANGED <<sessVars, netVars, tmMu, storeVars, reqs, budget,
                   failedChan, crashed, nfail>>

(***************************************************************************)
(* unregisterTopicHandler and topicManager.UnregisterTopic.                *)
(***************************************************************************)
\* under the registry's write lock; the return for a name that is not
\* registered leaves the lock held
unregisterTopicHandler(c, menu) ==
    /\ CanRead(c)
    /\ \E m \in {r \in menu : r.action = "unregisterTopic"} :
          LET msg == Frame(c, m)
              id == Len(reqs) + 1
              bad == Rejection(msg)
          IN /\ StartRequest(msg, [NoPipe EXCEPT !.tm =
                                      IF bad # "" THEN "rejected"
                                      ELSE IF topics[m.topic] = 0 THEN "error" ELSE ""])
             /\ IF bad # ""
                THEN /\ AckResponseBadRequest(RL(c), id, msg, bad, "idle")
                     /\ UNCHANGED <<tmMu, topics>>
                ELSE /\ tmMu = Free
                     /\ IF topics[m.topic] = 0
                        THEN /\ tmMu' = RL(c)
                             /\ topics' = topics
                             /\ AckResponseError(RL(c), id, msg, "topic doesn't exist", "idle")
                        ELSE /\ tmMu' = tmMu
                             /\ topics' = [topics EXCEPT ![m.topic] = 0]
                             /\ pc' = [pc EXCEPT ![RL(c)] = "unregDelete"]
                             /\ h' = [h EXCEPT ![RL(c)] = [HIdle EXCEPT !.id = id]]
    /\ UNCHANGED <<sessVars, netVars, tobjs, storeVars, failedChan, crashed, nfail>>

\* an UnregisterTopic that puts the topic back when db.Delete fails
StorageDeleteRollingBack(c) ==
    /\ ~crashed /\ pc[RL(c)] = "unregDelete"
    /\ LET id == h[RL(c)].id
           old == {o \in 1..Len(tobjs) : tobjs[o].name = reqs[id].topic}
       IN IF dbFault
          THEN /\ db' = db
               /\ topics' = [topics EXCEPT ![reqs[id].topic] = Max(old)]
               /\ pipe' = [pipe EXCEPT ![id].tm = "error"]
               /\ AckResponseError(RL(c), id, reqs[id],
                                   "Topic deleted but unable to delete from persistent storage", "idle")
          ELSE /\ db' = [db EXCEPT ![reqs[id].topic] = NoRow]
               /\ topics' = topics
               /\ pipe' = [pipe EXCEPT ![id].tm = "ok"]
               /\ AckResponseSuccess(RL(c), id, reqs[id], "idle")
    /\ UNCHANGED <<sessVars, netVars, tmMu, tobjs, writeQueue, closed, database, dbFault,
                   puts, reqs, budget, failedChan, crashed, nfail>>

\* db.Delete outside the lock, then the acknowledgement
StorageDelete(c) ==
    /\ ~crashed /\ pc[RL(c)] = "unregDelete"
    /\ LET id == h[RL(c)].id
       IN IF dbFault
          THEN /\ db' = db
               /\ pipe' = [pipe EXCEPT ![id].tm = "error"]
               /\ AckResponseError(RL(c), id, reqs[id],
                                   "Topic deleted but unable to delete from persistent storage", "idle")
          ELSE /\ db' = [db EXCEPT ![reqs[id].topic] = NoRow]
               /\ pipe' = [pipe EXCEPT ![id].tm = "ok"]
               /\ AckResponseSuccess(RL(c), id, reqs[id], "idle")
    /\ UNCHANGED <<sessVars, netVars, regVars, writeQueue, closed, database, dbFault,
                   puts, reqs,
                   budget, failedChan, crashed, nfail>>

(***************************************************************************)
(* listTopicsHandler, and RouteMessage for an action without a handler.    *)
(***************************************************************************)
\* the TopicResponse list: a nil slice when nothing is registered
ListData(snap) ==
    IF snap = {} THEN NilMap
    ELSE UNION {{<< <<tobjs[o].name>> \o e[1], e[2] >> : e \in GetLatestSchema(tobjs[o]).schema}
                : o \in snap}

\* ListTopics copies the registry under its read lock
listTopicsHandler(c, menu) ==
    /\ CanRead(c)
    /\ \E m \in {r \in menu : r.action = "listTopics"} :
          LET msg == Frame(c, m)
              id == Len(reqs) + 1
          IN /\ StartRequest(msg, [NoPipe EXCEPT !.tm = "ok"])
             /\ tmMu = Free
             /\ pc' = [pc EXCEPT ![RL(c)] = "listSchemas"]
             /\ h' = [h EXCEPT ![RL(c)] = [HIdle EXCEPT !.id = id, !.snap = Registered]]
    /\ UNCHANGED <<sessVars, netVars, regVars, storeVars, failedChan, crashed, nfail>>

\* GetLatestSchema of every topic of the copy, then the response with the list
ListTopicsSchemas(c) ==
    /\ ~crashed /\ pc[RL(c)] = "listSchemas"
    /\ \A o \in h[RL(c)].snap : tobjs[o].mu = Free
    /\ tobjs' = [o \in DOMAIN tobjs |->
                    IF o \in h[RL(c)].snap
                    THEN [tobjs[o] EXCEPT !.latest = GetLatestSchema(tobjs[o]).latest]
                    ELSE tobjs[o]]
    /\ pc' = [pc EXCEPT ![RL(c)] = "sLock"]
    /\ h' = [h EXCEPT ![RL(c)] = [@ EXCEPT
                !.frame = Response(h[RL(c)].id, "listTopics", StatusOK, "",
                                   ListData(h[RL(c)].snap)),
                !.ret = "idle", !.snap = {}]]
    /\ UNCHANGED <<sessVars, netVars, tmMu, topics, storeVars, reqs, pipe, budget,
                   failedChan, crashed, nfail>>

\* the actions that have a handler
Actions == {"subscribe", "publish", "unsubscribe", "unsubscribeAll", "get", "registerTopic",
            "unregisterTopic", "listTopics", "updateSchema", "sendWithoutSave"}

\* RouteMessage finds no handler for the action
RouteMessage(c, menu) ==
    /\ CanRead(c)
    /\ \E m \in {r \in menu : r.action \notin Actions} :
          LET msg == Frame(c, m)
              id == Len(reqs) + 1
          IN /\ StartRequest(msg, [NoPipe EXCEPT !.tm = "rejected"])
             /\ AckResponseBadRequest(RL(c), id, msg, "unknown action", "idle")
    /\ UNCHANGED <<sessVars, netVars, regVars, storeVars, failedChan, crashed, nfail>>

(***************************************************************************)
(* The publish pipeline: two sessions publish to and read topic T.         *)
(***************************************************************************)
\* the frames the sessions send in Spec
Menu == {Req("publish", "T", DataV1, TRUE),
         Req("publish", "T", DataN, FALSE),
         Req("sendWithoutSave", "T", DataDup, FALSE),
         Req("get", "T", RawNil, FALSE)}

\* a step of the pipeline of a request already read
Pipeline ==
    \/ \E c \in Clients :
          \/ IsSchemaMatch(c)
          \/ sendTopic(c)
          \/ TopicPublishLock(c)
          \/ TopicPublishNext(c)
          \/ TopicPublishWrite(c)
          \/ TopicPublishEnd(c)
          \/ HandlerReturn(c)
    \/ \E th \in Threads :
          \/ SendToClientLock(th)
          \/ SendToClientWrite(th)
    \/ \E id \in 1..Len(reqs) :
          \/ HandlerWatcherRecv(id)
          \/ HandlerWatcherCtxDone(id)
          \/ SendTopicWatcherRecv(id)
    \/ startWriter

Next ==
    \/ \E c \in Clients :
          \/ publishHandler(c, Menu)
          \/ sendWithoutSaveHandler(c, Menu)
          \/ getHandler(c, Menu)
    \/ Pipeline

Spec == Init /\ [][Next]_vars

(***************************************************************************)
(* The pipeline under faults: session 1 publishes to topic T while sockets *)
(* break and timers expire.                                                *)
(***************************************************************************)
FaultMenu == {Req("publish", "T", DataV1, TRUE),
              Req("sendWithoutSave", "T", DataDup, FALSE)}

NextFault ==
    \/ publishHandler(1, FaultMenu)
    \/ sendWithoutSaveHandler(1, FaultMenu)
    \/ Pipeline
    \/ \E c \in Clients :
          \/ SockFail(c)
          \/ handleWebSocketError(c)
          \/ Teardown(c)
    \/ \E th \in Threads :
          \/ UnsubscribeAllSnap(th)
          \/ UnsubscribeAllNext(th)
          \/ MarkClientFailed(th)
    \/ \E id \in 1..Len(reqs) :
          \/ CtxDeadline(id)
          \/ SendTopicWatcherTimeout(id)

SpecFault == Init /\ [][NextFault]_vars

\* the same sessions and frames with a database whose statements may fail:
\* the watcher goroutines then send persist-error frames
InitWrite == \E fault \in BOOLEAN : Running(Clients, fault, NoRow, MaxRequests)
SpecWrite == InitWrite /\ [][Next]_vars
(***************************************************************************)
(* Every handler on one frame: any action, registered, unregistered and    *)
(* blank topic names, absent, null, malformed, matching and mismatching    *)
(* data, with and without requireAck.                                      *)
(***************************************************************************)
HandlerMenu ==
    {Req(a, t, d, k) : a \in Actions \cup {"bogus"}, t \in {"T", "U", " "},
                       d \in {RawNil, RawNull, RawBad, DataV1, DataN}, k \in BOOLEAN}

InitHandlers ==
    \E subs \in SUBSET Clients, fault \in BOOLEAN, row \in {NoRow, DataV2} :
        Running(subs, fault, row, MaxHandlerRequests)

NextHandlers ==
    \/ \E c \in Clients :
          \/ subscribeHandler(c, HandlerMenu)
          \/ unsubscribeHandler(c, HandlerMenu)
          \/ unsubscribeAllHandler(c, HandlerMenu)
          \/ publishHandler(c, HandlerMenu)
          \/ sendWithoutSaveHandler(c, HandlerMenu)
          \/ getHandler(c, HandlerMenu)
          \/ registerTopicHandler(c, HandlerMenu)
          \/ unregisterTopicHandler(c, HandlerMenu)
          \/ listTopicsHandler(c, HandlerMenu)
          \/ updateSchemaHandler(c, HandlerMenu)
          \/ RouteMessage(c, HandlerMenu)
          \/ TopicSubscribe(c)
          \/ TopicUnsubscribe(c)
          \/ TopicUpdate(c)
          \/ RegisterTopicExisting(c)
          \/ RegisterTopicStore(c)
          \/ StorageDelete(c)
          \/ ListTopicsSchemas(c)
    \/ \E th \in Threads :
          \/ UnsubscribeAllSnap(th)
          \/ UnsubscribeAllNext(th)
    \/ Pipeline

SpecHandlers == InitHandlers /\ [][NextHandlers]_vars

(***************************************************************************)
(* What the sockets and the store have seen.                               *)
(***************************************************************************)
\* the log entries of session c that satisfy P
Entries(c, P(_)) == {i \in 1..Len(log[c]) : P(log[c][i])}
IsDeliveryOf(id, e) == e.f.kind = "delivery" /\ e.f.id = id
IsResponseOf(id, e) == e.f.kind = "response" /\ e.f.id = id
\* the requests that are a publish or a sendWithoutSave
Publishes == {id \in 1..Len(reqs) : reqs[id].action \in {"publish", "sendWithoutSave"}}
\* the fan-out of request id is over
FanOutDone(id) ==
    /\ pipe[id].tm = "ok"
    /\ ~(h[RL(reqs[id].c)].id = id /\ pc[RL(reqs[id].c)] \in {"pFan", "pIter", "pWrite"})
\* session c is in the failed-peer channel
Surfaced(c) == \E i \in 1..Len(failedChan) : failedChan[i] = c
\* the handler of request id has returned
Handled(id) == h[RL(reqs[id].c)].id # id

\* C1: when the fan-out of an accepted publish or sendWithoutSave is over,
\* every session it wrote to either got the one Delivery frame carrying the
\* request's id, action, topic and data, or is on the failed-peer channel.
C1_FanOutComplete ==
    \A id \in Publishes : FanOutDone(id) =>
        \A c \in Clients :
            \A i \in Entries(c, LAMBDA e : IsDeliveryOf(id, e)) :
                \/ /\ log[c][i].res = "ok"
                   /\ log[c][i].f = Delivery(id, reqs[id].action, reqs[id].topic,
                                             Marshal(ParsedData(reqs[id])))
                   /\ Cardinality(Entries(c, LAMBDA e : IsDeliveryOf(id, e))) = 1
                \/ Surfaced(c)

\* C2: two deliveries a subscriber received from publishes of one publisher
\* on one topic are in its log in the order the publisher's read loop
\* handled the publishes.
C2_PerSubscriberOrder ==
    \A s \in Clients : \A i, j \in 1..Len(log[s]) :
        LET a == log[s][i]
            b == log[s][j]
        IN (/\ a.f.kind = "delivery" /\ b.f.kind = "delivery"
            /\ a.res = "ok" /\ b.res = "ok"
            /\ reqs[a.f.id].c = reqs[b.f.id].c
            /\ a.f.topic = b.f.topic
            /\ a.f.id < b.f.id) => i < j

\* a subscriber has received the deliveries of two publishes of one publisher
C2_Witness ==
    \E s \in Clients : \E i, j \in 1..Len(log[s]) :
        /\ log[s][i].f.kind = "delivery" /\ log[s][j].f.kind = "delivery"
        /\ log[s][i].res = "ok" /\ log[s][j].res = "ok"
        /\ log[s][i].f.id # log[s][j].f.id
        /\ reqs[log[s][i].f.id].c = reqs[log[s][j].f.id].c
        /\ reqs[log[s][i].f.id].c # s

\* C3: at most one WriteJSON is under way on a session's socket.
C3_WriteSerialized == \A c \in Clients : Cardinality(writing[c]) <= 1

\* another session's fan-out is inside WriteJSON on a socket while a watcher
\* goroutine waits for the same session's send mutex with a persist-error
\* frame
C3_Witness ==
    \E c \in Clients : \E id \in 1..Len(reqs) :
        /\ \E th \in writing[c] : IsReadLoop(th) /\ Owner(th) # c
        /\ pc[HW(id)] = "sLock" /\ Owner(HW(id)) = c
        /\ h[HW(id)].frame.kind = "persist"

\* C7: a publish that IsSchemaMatch found not to match is answered with one
\* 400 and nothing else happens: no session is sent a Delivery of it and
\* AsyncPut is not called for it.
C7_MismatchNoEffect ==
    \A id \in 1..Len(reqs) :
        (reqs[id].action = "publish" /\ pipe[id].isMatch = "mismatch") =>
            /\ \A c \in Clients : Entries(c, LAMBDA e : IsDeliveryOf(id, e)) = {}
            /\ ~pipe[id].dbCh.made
            /\ \A i \in Entries(reqs[id].c, LAMBDA e : IsResponseOf(id, e)) :
                  log[reqs[id].c][i].f.code = StatusBadRequest

\* the publishes on topic n whose rows the writer has stored, oldest first
StoredPublishes(n) ==
    SelectSeq(puts, LAMBDA id : reqs[id].action = "publish" /\ reqs[id].topic = n)

\* C8: once the write of a publish on a topic has succeeded, Get of that
\* topic returns the data of the publish whose write succeeded last.
C8_RoundTrip ==
    \A n \in TopicNames :
        StoredPublishes(n) # <<>> =>
            StorageGet(n) = ParsedData(reqs[StoredPublishes(n)[Len(StoredPublishes(n))]])

\* C9: handling a sendWithoutSave never calls AsyncPut, and no row is
\* written for it.
C9_NeverPersists ==
    \A id \in 1..Len(reqs) :
        reqs[id].action = "sendWithoutSave" =>
            /\ ~pipe[id].dbCh.made
            /\ \A i \in 1..Len(puts) : puts[i] # id
\* the response frames written to the requester for request id
Responses(id) == Entries(reqs[id].c, LAMBDA e : IsResponseOf(id, e))
\* every topic-manager call the handler of request id made returned no error
Succeeded(id) == pipe[id].tm = "ok" /\ pipe[id].isMatch \in {"", "ok"}
\* the request was rejected or a topic-manager call returned an error
Errored(id) ==
    pipe[id].tm \in {"rejected", "error"} \/ pipe[id].isMatch \in {"mismatch", "error"}
\* the actions acknowledged with AckResponseSuccess
AckActions == {"subscribe", "unsubscribe", "publish", "sendWithoutSave", "updateSchema",
               "unregisterTopic"}

\* C4: a subscribe, unsubscribe, publish, sendWithoutSave, updateSchema or
\* unregisterTopic whose topic-manager calls succeeded is answered with
\* exactly one response frame, code 200 and the request's id, when requireAck
\* is set, and with no response frame when it is not.
C4_AckOnSuccess ==
    \A id \in 1..Len(reqs) :
        (reqs[id].action \in AckActions /\ Handled(id) /\ Succeeded(id)) =>
            IF reqs[id].ack
            THEN /\ Cardinality(Responses(id)) = 1
                 /\ \A i \in Responses(id) : log[reqs[id].c][i].f.code = StatusOK
            ELSE Responses(id) = {}

\* an acknowledged request of those actions has been handled with success
C4_Witness ==
    \E id \in 1..Len(reqs) :
        /\ reqs[id].action \in AckActions /\ reqs[id].ack
        /\ Handled(id) /\ Succeeded(id)
        /\ Cardinality(Responses(id)) = 1

\* C5: a request that ends in an error (a decorator's rejection, a schema
\* mismatch, a missing topic, any topic-manager error) is answered with
\* exactly one response frame, an error carrying its id, and no second one.
C5_OneErrorResponse ==
    \A id \in 1..Len(reqs) :
        (Handled(id) /\ Errored(id)) =>
            /\ Cardinality(Responses(id)) = 1
            /\ \A i \in Responses(id) :
                  log[reqs[id].c][i].f.code \in {StatusBadRequest, StatusInternalServerError}

Headers == {""} \cup Ids

\* hub.GetClient(clientID) for the header hd: an absent header is replaced
\* by a fresh uuid, which no session has
GetClient(hd) == IF hd = "" THEN 0 ELSE hub[hd]

\* handleWebSocket, first half: read the ClientId header and look the id up
\* in the hub; 409 when a session has it, else go on to the upgrade
handleWebSocket(c) ==
    /\ ~crashed /\ pc[RL(c)] = "new"
    /\ \E hd \in Headers :
          /\ hdr' = [hdr EXCEPT ![c] = hd]
          /\ pc' = [pc EXCEPT ![RL(c)] =
                       IF GetClient(hd) # 0 THEN "rejected" ELSE "upgrade"]
    /\ UNCHANGED <<hub, cid, sock, h, netVars, regVars, storeVars, reqs, pipe,
                   budget, failedChan, crashed, nfail>>

\* handleWebSocket, second half: Upgrade, the Client with a new uuid as its
\* Id, hub.AddClient; the read loop starts
AddClient(c) ==
    /\ ~crashed /\ pc[RL(c)] = "upgrade"
    /\ cid' = [cid EXCEPT ![c] = Uuid(c)]
    /\ hub' = [hub EXCEPT ![Uuid(c)] = c]
    /\ sock' = [sock EXCEPT ![c] = "open"]
    /\ pc' = [pc EXCEPT ![RL(c)] = "idle"]
    /\ UNCHANGED <<hdr, h, netVars, regVars, storeVars, reqs, pipe, budget,
                   failedChan, crashed, nfail>>

\* sessions connecting, their sockets breaking, and their teardown
NextConn ==
    \E c \in Clients :
        \/ handleWebSocket(c)
        \/ AddClient(c)
        \/ SockFail(c)
        \/ handleWebSocketError(c)
        \/ UnsubscribeAllSnap(RL(c))
        \/ UnsubscribeAllNext(RL(c))
        \/ Teardown(c)

SpecConn == InitEmpty /\ [][NextConn]_vars

\* session c is connected: upgraded and not yet torn down
Live(c) == pc[RL(c)] \notin {"new", "rejected", "upgrade", "dead"}

\* C10: no two live sessions have the same client id, the id being the
\* ClientId header a session connected with; an upgrade request carrying the
\* ClientId of a connected session creates no session.
C10_UniqueClientId ==
    \A c1, c2 \in Clients :
        (c1 # c2 /\ Live(c1) /\ Live(c2) /\ hdr[c1] # "") => hdr[c1] # hdr[c2]

\* the ids the hub is keyed by, Client.Id, are never shared by live sessions
HubIdsUnique ==
    \A c1, c2 \in Clients :
        (c1 # c2 /\ Live(c1) /\ Live(c2)) => cid[c1] # cid[c2]

\* a request carrying the Client.Id of a connected session has been rejected
RejectedSeen == \E c \in Clients : pc[RL(c)] = "rejected"
(***************************************************************************)
(* The registry and the subscriber sets: both sessions subscribe,          *)
(* unsubscribe, register, unregister and update topic T.                   *)
(***************************************************************************)
TopicMenu == {Req("subscribe", "T", RawNil, FALSE),
              Req("unsubscribe", "T", RawNil, FALSE),
              Req("unsubscribeAll", "T", RawNil, FALSE),
              Req("registerTopic", "T", DataV2, FALSE),
              Req("registerTopic", "T", DataN, FALSE),
              Req("registerTopic", "T", DataNested, FALSE),
              Req("unregisterTopic", "T", RawNil, FALSE),
              Req("updateSchema", "T", DataN, FALSE)}

InitTopics == \E subs \in {{}, {2}} : Running(subs, FALSE, NoRow, MaxTopicRequests)

NextTopics ==
    \/ \E c \in Clients :
          \/ subscribeHandler(c, TopicMenu)
          \/ unsubscribeHandler(c, TopicMenu)
          \/ unsubscribeAllHandler(c, TopicMenu)
          \/ registerTopicHandler(c, TopicMenu)
          \/ unregisterTopicHandler(c, TopicMenu)
          \/ updateSchemaHandler(c, TopicMenu)
          \/ TopicSubscribe(c)
          \/ TopicUnsubscribe(c)
          \/ TopicUpdate(c)
          \/ RegisterTopicExisting(c)
          \/ RegisterTopicStore(c)
          \/ StorageDelete(c)
    \/ \E th \in Threads :
          \/ UnsubscribeAllSnap(th)
          \/ UnsubscribeAllNext(th)
          \/ SendToClientLock(th)
          \/ SendToClientWrite(th)

SpecTopics == InitTopics /\ [][NextTopics]_vars

\* session c sent no subscribe after request id
NoLaterSubscribe(c, id) ==
    \A j \in 1..Len(reqs) :
        j > id => ~(reqs[j].c = c /\ reqs[j].action = "subscribe")

LiveMenu == {Req("subscribe", "T", RawNil, TRUE),
             Req("subscribe", "T", RawNil, FALSE),
             Req("unsubscribe", "T", RawNil, TRUE)}

NextLive ==
    \/ \E c \in Clients :
          \/ subscribeHandler(c, LiveMenu)
          \/ unsubscribeHandler(c, LiveMenu)
          \/ TopicSubscribe(c)
          \/ TopicUnsubscribe(c)
          \/ SockFail(c)
          \/ handleWebSocketError(c)
          \/ ReadFailure(c)
          \/ Teardown(c)
    \/ \E th \in Threads :
          \/ SendToClientLock(th)
          \/ SendToClientWrite(th)
          \/ UnsubscribeAllSnap(th)
          \/ UnsubscribeAllNext(th)
          \/ MarkClientFailed(th)

SpecLive == Init /\ [][NextLive]_vars

\* C12: every member of the subscriber set of a registered topic is a
\* session the hub holds: a session whose read loop has exited, or that was
\* evicted, is in no subscriber set.
C12_SubscribersLive ==
    \A o \in Registered : \A c \in tobjs[o].subs : hub[cid[c]] = c

\* the read loop of a session that had subscribed to T has exited and the
\* session is out of the hub
C12_Witness ==
    \E c \in Clients : \E i \in 1..Len(reqs) :
        /\ reqs[i].c = c /\ reqs[i].action = "subscribe" /\ pipe[i].tm = "ok"
        /\ pc[RL(c)] = "dead" /\ hub[cid[c]] = 0

(***************************************************************************)
(* Subscribing twice, then a publish.                                      *)
(***************************************************************************)
SubscribeMenu == {Req("subscribe", "T", RawNil, TRUE),
                  Req("publish", "T", DataV1, FALSE)}

InitSubscribe == \E subs \in {{}, {2}} : Running(subs, FALSE, NoRow, MaxTopicRequests)

NextSubscribe ==
    \/ \E c \in Clients :
          \/ subscribeHandler(c, SubscribeMenu)
          \/ publishHandler(c, SubscribeMenu)
          \/ TopicSubscribe(c)
    \/ Pipeline

SpecSubscribe == InitSubscribe /\ [][NextSubscribe]_vars

\* requests i and j are two subscribes of one session to one topic,
\* i before j
TwoSubscribes(i, j) ==
    /\ i < j
    /\ reqs[i].action = "subscribe" /\ reqs[j].action = "subscribe"
    /\ reqs[i].c = reqs[j].c /\ reqs[i].topic = reqs[j].topic

\* C13: when a session has subscribed twice to an existing topic, both
\* requests succeeded (one 200 each), the session is in the topic's
\* subscriber set, and a later publish on the topic whose fan-out is over
\* has written exactly one Delivery to the session.
C13_IdempotentSubscribe ==
    \A i, j \in 1..Len(reqs) :
        (TwoSubscribes(i, j) /\ Handled(j)) =>
            /\ pipe[i].tm = "ok" /\ pipe[j].tm = "ok"
            /\ \A k \in {i, j} :
                  /\ Cardinality(Responses(k)) = 1
                  /\ \A e \in Responses(k) : log[reqs[k].c][e].f.code = StatusOK
            /\ reqs[j].c \in tobjs[topics[reqs[j].topic]].subs
            /\ \A p \in Publishes :
                  (p > j /\ reqs[p].topic = reqs[j].topic /\ FanOutDone(p)) =>
                      Cardinality(Entries(reqs[j].c, LAMBDA e : IsDeliveryOf(p, e))) = 1

\* a session has subscribed twice and the fan-out of a later publish is over
C13_Witness ==
    \E i, j \in 1..Len(reqs) : \E p \in Publishes :
        /\ TwoSubscribes(i, j) /\ Handled(j)
        /\ p > j /\ FanOutDone(p)
        /\ Entries(reqs[j].c, LAMBDA e : IsDeliveryOf(p, e)) # {}

\* request j is an unsubscribe of a session from a topic that follows a
\* successful unsubscribe i of the same session from the same topic, with no
\* subscribe of the session in between
SecondUnsubscribe(i, j) ==
    /\ i < j
    /\ reqs[i].action = "unsubscribe" /\ reqs[j].action = "unsubscribe"
    /\ reqs[i].c = reqs[j].c /\ reqs[i].topic = reqs[j].topic
    /\ pipe[i].tm = "ok"
    /\ \A k \in 1..Len(reqs) :
          (i < k /\ k < j) => ~(reqs[k].c = reqs[i].c /\ reqs[k].action = "subscribe")

\* once handled, the second unsubscribe has failed and got one 500
SecondUnsubscribeFailed ==
    \A i, j \in 1..Len(reqs) :
        (SecondUnsubscribe(i, j) /\ Handled(j)) =>
            /\ pipe[j].tm = "error"
            /\ Cardinality(Responses(j)) = 1
            /\ \A e \in Responses(j) :
                  log[reqs[j].c][e].f.code = StatusInternalServerError

\* the step in which a second unsubscribe calls Topic.Unsubscribe changes
\* no topic
SecondUnsubscribeKeeps ==
    \A c \in Clients :
        (/\ pc[RL(c)] = "unsubTopic" /\ pc'[RL(c)] # "unsubTopic"
         /\ \E i \in 1..Len(reqs) : SecondUnsubscribe(i, h[RL(c)].id)) =>
            tobjs' = tobjs

\* C14: after a successful unsubscribe of a session from a topic, a second
\* unsubscribe of the session from the topic fails, is answered with one
\* 500 error frame, and leaves the subscriber sets as they were.
C14_SecondUnsubscribeFails ==
    []SecondUnsubscribeFailed /\ [][SecondUnsubscribeKeeps]_vars

\* the second unsubscribe of a session from the registered topic has been
\* answered
C14_Witness ==
    \E i, j \in 1..Len(reqs) :
        /\ SecondUnsubscribe(i, j) /\ Handled(j)
        /\ topics[reqs[j].topic] # 0
        /\ Responses(j) # {}

\* the sum of latestSchema over the first n Topic objects
RECURSIVE SumLatest(_)
SumLatest(n) == IF n = 0 THEN 0 ELSE tobjs[n].latest + SumLatest(n - 1)

\* the updateSchema requests whose Topic.UpdateSchema has run
Updates == {id \in 1..Len(reqs) : reqs[id].action = "updateSchema" /\ pipe[id].tm = "ok"}

\* the schemas map of every topic holds exactly the versions 0..latestSchema,
\* and every UpdateSchema call has added one version to one topic
SchemasDense ==
    /\ \A o \in 1..Len(tobjs) : DOMAIN tobjs[o].schemas = 0..tobjs[o].latest
    /\ SumLatest(Len(tobjs)) = Cardinality(Updates)

\* no step removes a version, changes a stored version or lowers latestSchema
SchemasKept ==
    \A o \in 1..Len(tobjs) :
        /\ tobjs'[o].latest >= tobjs[o].latest
        /\ \A v \in DOMAIN tobjs[o].schemas :
              /\ v \in DOMAIN tobjs'[o].schemas
              /\ tobjs'[o].schemas[v] = tobjs[o].schemas[v]

\* C15: in every state each topic's schemas map holds exactly the versions
\* 0..latestVersion, latestVersion being the number of UpdateSchema calls the
\* topic received, and no step removes or reuses a version.
C15_SchemaMonotonic == []SchemasDense /\ [][SchemasKept]_vars

\* two sessions have updated the schema of one topic
C15_Witness ==
    \E o \in 1..Len(tobjs) : \E i, j \in Updates :
        /\ reqs[i].c # reqs[j].c
        /\ tobjs[o].latest = 2

\* session c's RegisterTopic is about to compare the schema it was given
\* with the latest one of the topic it found
Registering(c) == pc[RL(c)] = "regExisting" /\ pc'[RL(c)] # "regExisting"
\* the structure of a JSON value: its paths, and which of them end in an
\* empty object
Structure(v) == {<<e[1], e[2] = "{}">> : e \in v}
\* the shape it was given has the structure of the latest schema
SameShape(c) ==
    Structure(GetLatestSchema(tobjs[h[RL(c)].obj]).schema) =
        Structure(ParsedData(reqs[h[RL(c)].id]))

\* a RegisterTopic on a registered name with the same shape succeeds and
\* changes neither the registry nor any topic
RegisterSameKeeps ==
    \A c \in Clients :
        (Registering(c) /\ SameShape(c)) =>
            /\ tobjs' = tobjs /\ topics' = topics
            /\ pipe'[h[RL(c)].id].tm = "ok"

\* two registerTopic requests i, j on one name, i handled first
TwoRegisters(i, j) ==
    /\ i < j
    /\ reqs[i].action = "registerTopic" /\ reqs[j].action = "registerTopic"
    /\ reqs[i].topic = reqs[j].topic
    /\ Handled(i) /\ Handled(j)

RegisterOtherFails ==
    \A c \in Clients :
        (Registering(c) /\ ~SameShape(c)) =>
            /\ tobjs' = tobjs /\ topics' = topics
            /\ pipe'[h[RL(c)].id].tm = "error"
            /\ h'[RL(c)].frame.code = StatusInternalServerError

ReRegistered(u, r) ==
    /\ u < r /\ reqs[u].c = reqs[r].c /\ reqs[u].topic = reqs[r].topic
    /\ reqs[u].action = "unregisterTopic" /\ pipe[u].tm = "ok"
    /\ reqs[r].action = "registerTopic" /\ pipe[r].tm = "ok" /\ Handled(r)
    /\ \A k \in 1..Len(reqs) :
          /\ k > u => reqs[k].action # "updateSchema"
          /\ k > r => reqs[k].action # "unregisterTopic"

\* C18: after registerTopic, unregisterTopic and registerTopic of one name
\* the registry holds a topic of that name with latestVersion 0 and
\* version 0 as its only schema, whatever updates the first topic received.
C18_RegisterRoundTrip ==
    \A u, r \in 1..Len(reqs) :
        ReRegistered(u, r) =>
            /\ topics[reqs[r].topic] # 0
            /\ tobjs[topics[reqs[r].topic]].latest = 0
            /\ DOMAIN tobjs[topics[reqs[r].topic]].schemas = {0}

\* a topic whose schema had been updated was unregistered and registered
\* again
C18_Witness ==
    \E i, u, r \in 1..Len(reqs) :
        /\ i < u /\ reqs[i].action = "updateSchema" /\ pipe[i].tm = "ok"
        /\ reqs[i].topic = reqs[u].topic
        /\ ReRegistered(u, r)

(***************************************************************************)
(* A topic that is published to, unregistered, registered again and read.  *)
(***************************************************************************)
UnregisterMenu == {Req("publish", "T", DataV1, FALSE),
                   Req("unregisterTopic", "T", RawNil, FALSE),
                   Req("registerTopic", "T", DataV2, FALSE),
                   Req("get", "T", RawNil, FALSE)}

InitUnregister == Running({1}, FALSE, NoRow, MaxUnregisterRequests)

\* session 2 publishes while session 1 unregisters, registers and reads
NextUnregister ==
    \/ publishHandler(2, UnregisterMenu)
    \/ unregisterTopicHandler(1, UnregisterMenu)
    \/ registerTopicHandler(1, UnregisterMenu)
    \/ getHandler(1, UnregisterMenu)
    \/ StorageDelete(1)
    \/ RegisterTopicExisting(1)
    \/ RegisterTopicStore(1)
    \/ Pipeline

SpecUnregister == InitUnregister /\ [][NextUnregister]_vars

\* a publish on topic t is still in its fan-out on a topic object that is
\* no longer the registered one: sendTopic looked the name up and called
\* AsyncPut before the name was unregistered
PublishOnOldTopic(t) ==
    \E p \in Clients :
        /\ pc[RL(p)] \in {"pFan", "pIter", "pWrite"}
        /\ reqs[h[RL(p)].id].topic = t
        /\ h[RL(p)].obj # topics[t]

\* request g is a successful get that follows, in one session, a successful
\* unregisterTopic u and registerTopic r of its topic; no publish or
\* sendWithoutSave has been read since u, and the one in flight was queued
\* for persistence before the unregistration
GetAfterReRegister(u, r, g) ==
    /\ u < r /\ r < g
    /\ reqs[u].c = reqs[r].c /\ reqs[r].c = reqs[g].c
    /\ reqs[u].topic = reqs[g].topic /\ reqs[r].topic = reqs[g].topic
    /\ reqs[u].action = "unregisterTopic" /\ pipe[u].tm = "ok"
    /\ reqs[r].action = "registerTopic" /\ pipe[r].tm = "ok"
    /\ reqs[g].action = "get" /\ pipe[g].tm = "ok" /\ Handled(g)
    /\ \A k \in Publishes : k < u
    /\ PublishOnOldTopic(reqs[g].topic)

\* C19: a get of a topic that was unregistered and registered again returns
\* no data as long as nothing has been published on the topic since, also
\* when a publish was waiting in the write queue at the unregistration.
C19_UnregisteredEmpty ==
    \A u, r, g \in 1..Len(reqs) :
        GetAfterReRegister(u, r, g) =>
            \A e \in Responses(g) : log[reqs[g].c][e].f.data = NilMap

(***************************************************************************)
(* The failed-peer listener and the cleanup crew of WebSocketServer.  main *)
(* constructs the server and never calls either method; here a host may.   *)
(***************************************************************************)
FAILED_MESSAGE_THRESHOLD == 3

\* a counter map that holds session 2 above the threshold
failedClientsCounted == [c \in {2} |-> FAILED_MESSAGE_THRESHOLD + 1]

\* WebSocketServer.failedClients: NewWebSocketServer leaves the map nil and
\* nothing assigns it, so it has no entries
failedClients == [c \in {} |-> 0]

\* ListenForClientFailuresFromTopicManager is started: its loop blocks in
\* NextFailedClient
ListenForClientFailuresFromTopicManager ==
    /\ ~crashed /\ pc[Listener] = "none"
    /\ pc' = [pc EXCEPT ![Listener] = "recv"]
    /\ UNCHANGED <<sessVars, h, netVars, regVars, storeVars, reqs, pipe, budget,
                   failedChan, crashed, nfail>>

\* topicManager.NextFailedClient returns the oldest client of the channel
\* and the loop calls MarkClientFailed
NextFailedClient ==
    /\ ~crashed /\ pc[Listener] = "recv" /\ failedChan # <<>>
    /\ failedChan' = Tail(failedChan)
    /\ h' = [h EXCEPT ![Listener].cur = Head(failedChan)]
    /\ pc' = [pc EXCEPT ![Listener] = "markFailed"]
    /\ UNCHANGED <<sessVars, netVars, regVars, storeVars, reqs, pipe, budget,
                   crashed, nfail>>

\* StartClientCleanupCrew starts the goroutine that waits on its ticker
StartClientCleanupCrew ==
    /\ ~crashed /\ pc[CleanupCrew] = "none"
    /\ pc' = [pc EXCEPT ![CleanupCrew] = "tick"]
    /\ UNCHANGED <<sessVars, h, netVars, regVars, storeVars, reqs, pipe, budget,
                   failedChan, crashed, nfail>>

\* the ticker fires: the loop is about to call cleanupFailedClients
CleanupTick ==
    /\ ~crashed /\ pc[CleanupCrew] = "tick"
    /\ pc' = [pc EXCEPT ![CleanupCrew] = "sweep"]
    /\ UNCHANGED <<sessVars, h, netVars, regVars, storeVars, reqs, pipe, budget,
                   failedChan, crashed, nfail>>

\* the clients the sweep removes: those counted more than the threshold
Removals == {c \in DOMAIN failedClients : failedClients[c] > FAILED_MESSAGE_THRESHOLD}

\* cleanupFailedClients: UnsubscribeAll and hub.RemoveClient for each removal
cleanupFailedClients ==
    /\ ~crashed /\ pc[CleanupCrew] = "sweep"
    /\ Removals # {} => (tmMu = Free /\ \A o \in Registered : tobjs[o].mu = Free)
    /\ tobjs' = [o \in DOMAIN tobjs |->
                    IF o \in Registered THEN [tobjs[o] EXCEPT !.subs = @ \ Removals]
                    ELSE tobjs[o]]
    /\ hub' = [i \in DOMAIN hub |-> IF hub[i] \in Removals THEN 0 ELSE hub[i]]
    /\ pc' = [pc EXCEPT ![CleanupCrew] = "tick"]
    /\ UNCHANGED <<cid, hdr, sock, h, netVars, tmMu, topics, storeVars, reqs, pipe,
                   budget, failedChan, crashed, nfail>>

CleanupMenu == {Req("sendWithoutSave", "T", DataV1, FALSE)}

InitCleanup == Running({2}, FALSE, NoRow, MaxCleanupRequests)

\* session 1 sends sendWithoutSave frames to subscriber 2, whose socket may
\* break
NextCleanup ==
    \/ sendWithoutSaveHandler(1, CleanupMenu)
    \/ IsSchemaMatch(1)
    \/ sendTopic(1)
    \/ TopicPublishLock(1)
    \/ TopicPublishNext(1)
    \/ TopicPublishWrite(1)
    \/ TopicPublishEnd(1)
    \/ HandlerReturn(1)
    \/ \E id \in 1..Len(reqs) :
          \/ HandlerWatcherRecv(id)
          \/ HandlerWatcherCtxDone(id)
    \/ SockFail(2)
    \/ handleWebSocketError(2)
    \/ Teardown(2)
    \/ \E th \in Threads :
          \/ UnsubscribeAllSnap(th)
          \/ UnsubscribeAllNext(th)
          \/ MarkClientFailed(th)
    \/ ListenForClientFailuresFromTopicManager
    \/ NextFailedClient
    \/ StartClientCleanupCrew
    \/ CleanupTick
    \/ cleanupFailedClients

SpecCleanup == InitCleanup /\ [][NextCleanup]_vars

\* the publishes whose fan-out is over and whose Delivery to session s
\* failed with the close error that puts s on the failed-peer channel
FailedPublishes(s) ==
    {id \in Publishes :
        /\ FanOutDone(id)
        /\ \E i \in Entries(s, LAMBDA e : IsDeliveryOf(id, e)) :
              IsNormalClose(log[s][i].res)}

\* session s has failed on three consecutive publishes
ThreeFailures(s) ==
    \E id \in Publishes :
        {id, id + 1, id + 2} \subseteq FailedPublishes(s)

\* a step of cleanupFailedClients
Sweep == pc[CleanupCrew] = "sweep" /\ pc'[CleanupCrew] # "sweep"

SweepEvicts ==
    \A s \in Clients :
        (Sweep /\ ThreeFailures(s)) =>
            /\ \A i \in Ids : hub'[i] # s
            /\ \A o \in Registered : s \notin tobjs'[o].subs

\* C20: a sweep of the cleanup loop that runs once a session has failed on
\* three consecutive publishes evicts the session: after it the session is
\* in no topic's subscriber set and not in the Session Registry.
C20_FailedPeerEviction == [][SweepEvicts]_vars

SweepTearsDown ==
    \A s \in Clients :
        (Sweep /\ ThreeFailures(s)) =>
            /\ sock'[s] = "closed"
            /\ pc'[RL(s)] = "dead"

\* C21: a session the cleanup loop evicts ends like one whose read loop
\* exited: after the sweep that follows its three failed publishes its socket
\* is closed and its read loop has ended, so it handles no further request.
C21_SingleTeardown == [][SweepTearsDown]_vars

\* the read loop of session c has exited
Exited(c) == pc[RL(c)] = "dead"

\* C22: once the read loop of a session has exited, after a close of any code
\* or a permanent read failure, the session is in no topic's subscriber set
\* and not in the Session Registry, and its socket is closed.
C22_TerminationOnClose ==
    \A c \in Clients :
        Exited(c) =>
            /\ \A o \in Registered : c \notin tobjs[o].subs
            /\ \A i \in Ids : hub[i] # c
            /\ sock[c] = "closed"

(***************************************************************************)
(* Frames that cannot be decoded, among frames that can.                   *)
(***************************************************************************)
DecodeMenu == {Req("subscribe", "T", RawNil, TRUE), Req("unsubscribe", "T", RawNil, TRUE)}

NextDecode ==
    \/ \E c \in Clients :
          \/ handleWebSocketErrorDecode(c)
          \/ subscribeHandler(c, DecodeMenu)
          \/ unsubscribeHandler(c, DecodeMenu)
          \/ TopicSubscribe(c)
          \/ TopicUnsubscribe(c)
    \/ \E th \in Threads :
          \/ SendToClientLock(th)
          \/ SendToClientWrite(th)

SpecDecode == Init /\ [][NextDecode]_vars

\* the frames of session c that failed decoding and whose handling is over
Undecodable(c) == {i \in 1..Len(reqs) : reqs[i].c = c /\ reqs[i].bad # "" /\ Handled(i)}
\* the responses session c got that carry code 400, id "UNKNOWN" and action
\* "UNKNOWN"
UnknownResponses(c) ==
    Entries(c, LAMBDA e : /\ e.f.kind = "response" /\ e.f.id = UnknownId
                          /\ e.f.code = StatusBadRequest /\ e.f.action = "UNKNOWN")

\* C23: each frame that fails decoding is answered with one response of code
\* 400, id "UNKNOWN" and action "UNKNOWN", and the session stays in the
\* Session Registry with its read loop running.
C23_DecodeErrorAnswered ==
    \A c \in Clients :
        /\ Cardinality(UnknownResponses(c)) = Cardinality(Undecodable(c))
        /\ Undecodable(c) # {} => hub[cid[c]] = c /\ pc[RL(c)] # "dead"

\* the request names a topic-scoped action and its topic is empty or blank
BlankTopic(msg) ==
    /\ msg.action \in Actions \ {"listTopics", "unsubscribeAll"}
    /\ msg.topic \in {"", " "}
\* the request names an action that needs data and its data is absent,
\* empty, or no JSON object
NoObjectData(msg) ==
    /\ msg.action \in {"publish", "registerTopic", "updateSchema", "sendWithoutSave"}
    /\ msg.data.t # "obj"
\* the request fails validation
Invalid(msg) ==
    msg.bad = "" /\ (BlankTopic(msg) \/ NoObjectData(msg) \/ msg.action \notin Actions)

InvalidAnswered ==
    \A id \in 1..Len(reqs) :
        (Invalid(reqs[id]) /\ Handled(id)) =>
            /\ Cardinality(Responses(id)) = 1
            /\ \A i \in Responses(id) : log[reqs[id].c][i].f.code = StatusBadRequest
            /\ \A i \in 1..Len(log[reqs[id].c]) :
                  log[reqs[id].c][i].f.id = id => i \in Responses(id)

InvalidKeeps ==
    (\A id \in 1..Len(reqs') : Invalid(reqs'[id])) =>
        UNCHANGED <<topics, tobjs, db, writeQueue>>

\* C24: a request with a blank topic, with data that is absent, empty or no
\* JSON object where data is needed, or with an unknown action is answered
\* with exactly one response, of code 400, also when several checks fail at
\* once; the topics, the subscriber sets and the storage stay as they were.
C24_RequestValidation == []InvalidAnswered /\ [][InvalidKeeps]_vars

\* a publish that fails both the topic check and the data check has been
\* answered
C24_Witness ==
    \E id \in 1..Len(reqs) :
        /\ reqs[id].action \in {"publish", "updateSchema"}
        /\ BlankTopic(reqs[id]) /\ NoObjectData(reqs[id])
        /\ Handled(id) /\ Cardinality(Responses(id)) = 1

\* C25: an unsubscribeAll request, with or without a topic, removes its
\* session from the subscriber set of every topic and is answered with
\* exactly one response, of code 200.
C25_UnsubscribeAll ==
    \A id \in 1..Len(reqs) :
        (/\ reqs[id].action = "unsubscribeAll" /\ Handled(id)
         /\ NoLaterSubscribe(reqs[id].c, id)) =>
            /\ \A o \in Registered : reqs[id].c \notin tobjs[o].subs
            /\ Cardinality(Responses(id)) = 1
            /\ \A i \in Responses(id) : log[reqs[id].c][i].f.code = StatusOK

\* the persist-error frames written to the requester for request id
PersistFrames(id) == Entries(reqs[id].c, LAMBDA e : e.f.kind = "persist" /\ e.f.id = id)
\* the 2 s of sendTopic's watcher passed before the storage acknowledged
\* request id: the watcher is done and never received from the channel of
\* AsyncPut
TimedOut(id) ==
    /\ pipe[id].tw = "done"
    /\ pipe[id].dbCh.buf # <<>> \/ ~pipe[id].dbCh.closed
\* the publish id is over: handler returned, both watchers done, and the
\* publisher's socket has taken every frame
Settled(id) ==
    /\ reqs[id].action = "publish" /\ Succeeded(id)
    /\ Handled(id) /\ pc[HW(id)] = "done" /\ pipe[id].tw = "done"
    /\ WriteResult(reqs[id].c) = "ok"

\* C26: a publish whose storage acknowledgement did not arrive within the
\* persistence window gets one persist-error frame with code 500 and its id,
\* and, when it asked for an acknowledgement, the handler's 200 response as a
\* separate frame.
C26_PersistTimeout ==
    \A id \in 1..Len(reqs) :
        (Settled(id) /\ TimedOut(id)) =>
            /\ Cardinality(PersistFrames(id)) = 1
            /\ \A i \in PersistFrames(id) :
                  /\ log[reqs[id].c][i].f.code = StatusInternalServerError
                  /\ log[reqs[id].c][i].f.action = "persist"
            /\ reqs[id].ack =>
                  /\ Cardinality(Responses(id)) = 1
                  /\ \A i \in Responses(id) : log[reqs[id].c][i].f.code = StatusOK

\* a publish with requireAck has timed out in sendTopic's watcher and is over
C26_Witness ==
    \E id \in 1..Len(reqs) :
        /\ Settled(id) /\ TimedOut(id) /\ reqs[id].ack
        /\ PersistFrames(id) # {} /\ Responses(id) # {}

\* the writer stored the row of request id and sendTopic's watcher received
\* the acknowledgement before its timer fired
AckedInWindow(id) ==
    /\ \E i \in 1..Len(puts) : puts[i] = id
    /\ pipe[id].tw = "done" /\ ~TimedOut(id)

\* C27: a publish whose write is acknowledged successfully within the
\* persistence window yields no persist-error frame, and no publish yields
\* more than one.
C27_PersistErrorOnlyOnFailure ==
    \A id \in Publishes :
        /\ Cardinality(PersistFrames(id)) <= 1
        /\ AckedInWindow(id) => PersistFrames(id) = {}

(***************************************************************************)
(* Publishes checked against a schema that updateSchema has replaced.      *)
(***************************************************************************)
SchemaMenu == {Req("updateSchema", "T", DataNested, FALSE),
               Req("updateSchema", "T", DataN, FALSE),
               Req("publish", "T", DataV1, FALSE),
               Req("publish", "T", DataNested, FALSE),
               Req("publish", "T", DataN, FALSE)}

InitSchema == Running({2}, FALSE, NoRow, MaxRequests)

NextSchema ==
    \/ \E c \in Clients :
          \/ updateSchemaHandler(c, SchemaMenu)
          \/ TopicUpdate(c)
          \/ publishHandler(c, SchemaMenu)
    \/ Pipeline

SpecSchema == InitSchema /\ [][NextSchema]_vars

\* value has the property names of shape and, wherever shape holds an
\* object, an object that matches it in the same way
RECURSIVE MatchesShape(_, _)
MatchesShape(shape, value) ==
    /\ JKeys(shape) = JKeys(value)
    /\ \A k \in JKeys(shape) :
          IsObj(JField(shape, k)) =>
              /\ IsObj(JField(value, k))
              /\ MatchesShape(JField(shape, k), JField(value, k))

\* the step in which session c's publish gets the verdict of IsSchemaMatch
Matching(c) == pc[RL(c)] = "pSchema" /\ pc'[RL(c)] # "pSchema"

MatchVerdict ==
    \A c \in Clients :
        Matching(c) =>
            LET id == h[RL(c)].id
                shape == GetLatestSchema(tobjs[h[RL(c)].obj]).schema
            IN (pipe'[id].isMatch = "ok") <=> MatchesShape(shape, ParsedData(reqs[id]))

\* C28: IsSchemaMatch accepts the data of a publish exactly when it has the
\* property names of the topic's latest schema and an object, matching in the
\* same way, wherever that schema holds an object; the schema is the one the
\* last updateSchema stored.
C28_SchemaMatch == [][MatchVerdict]_vars

(***************************************************************************)
(* The completion channel of AsyncPut.                                     *)
(***************************************************************************)
\* request id's write is waiting in the queue
Queued(id) == \E i \in 1..Len(writeQueue) : writeQueue[i].id = id
\* AsyncPut was called for request id and its write is no longer queued:
\* it was refused, dropped for its context, or executed
Completed(id) == pipe[id].dbCh.made /\ ~Queued(id)

\* C29: every channel AsyncPut returned is closed once its request has left
\* the queue, whether it was refused, dropped for an ended context or written
C29_OneShotChannel ==
    \A id \in 1..Len(reqs) : Completed(id) => pipe[id].dbCh.closed

(***************************************************************************)
(* Shutdown of the store: session 1 publishes to topic T while main closes *)
(* the store, twice, and the writer's context may be cancelled.            *)
(***************************************************************************)
CloseMenu == {Req("publish", "T", DataV1, TRUE)}

InitClose == Running({2}, FALSE, NoRow, MaxRequests)

NextClose ==
    \/ publishHandler(1, CloseMenu)
    \/ Pipeline
    \/ startWriterQueueClosed
    \/ startWriterCtxDone
    \/ CloseQueue
    \/ CloseDatabase

SpecClose == InitClose /\ [][NextClose]_vars

\* the step closes the backing store, or ends the writer goroutine
StoreCloses == database = "open" /\ database' = "closed"
WriterStops == pc[Writer] = "run" /\ pc'[Writer] = "stopped"
\* no accepted write is waiting for its acknowledgement
Drained == writeQueue = <<>>
CloseDrains == (StoreCloses \/ WriterStops) => Drained

\* C30: when the backing store is closed, or the writer stops for its
\* cancelled context, every write accepted before has been acknowledged: none
\* is still in the queue
C30_CloseDrains == [][CloseDrains]_vars

(***************************************************************************)
(* The locks of the topic manager: both sessions run every operation of    *)
(* the topic manager on topic T and on the unregistered name U.            *)
(***************************************************************************)
LockMenu == {Req("subscribe", "T", RawNil, FALSE),
             Req("unsubscribe", "T", RawNil, FALSE),
             Req("unsubscribeAll", "T", RawNil, FALSE),
             Req("registerTopic", "T", DataV2, FALSE),
             Req("registerTopic", "U", DataV2, FALSE),
             Req("unregisterTopic", "T", RawNil, FALSE),
             Req("unregisterTopic", "U", RawNil, FALSE),
             Req("updateSchema", "T", DataN, FALSE),
             Req("listTopics", "", RawNil, FALSE),
             Req("sendWithoutSave", "T", DataV1, FALSE)}

InitLocks == Running({2}, FALSE, NoRow, MaxLockRequests)

NextLocks ==
    \/ \E c \in Clients :
          \/ subscribeHandler(c, LockMenu)
          \/ unsubscribeHandler(c, LockMenu)
          \/ unsubscribeAllHandler(c, LockMenu)
          \/ registerTopicHandler(c, LockMenu)
          \/ unregisterTopicHandler(c, LockMenu)
          \/ updateSchemaHandler(c, LockMenu)
          \/ listTopicsHandler(c, LockMenu)
          \/ sendWithoutSaveHandler(c, LockMenu)
          \/ TopicSubscribe(c)
          \/ TopicUnsubscribe(c)
          \/ TopicUpdate(c)
          \/ RegisterTopicExisting(c)
          \/ RegisterTopicStore(c)
          \/ StorageDelete(c)
          \/ ListTopicsSchemas(c)
    \/ \E th \in Threads :
          \/ UnsubscribeAllSnap(th)
          \/ UnsubscribeAllNext(th)
    \/ Pipeline

SpecLocks == InitLocks /\ [][NextLocks]_vars

\* the positions from which a goroutine's next step locks a topic:
\* Topic.Publish, Subscribe, Unsubscribe, UpdateSchema, GetLatestSchema
TopicLockPoints == {"pSchema", "pFan", "subTopic", "unsubTopic", "updTopic",
                    "regExisting", "listSchemas", "uaNext"}
\* goroutine th locks a topic in this step
TakesTopicLock(th) ==
    /\ pc[th] \in TopicLockPoints
    /\ pc[th] = "uaNext" => h[th].snap # {}
    /\ pc'[th] # pc[th] \/ h'[th] # h[th]
RegistryLockLeaf ==
    \A th \in Threads : TakesTopicLock(th) => tmMu # th /\ tmMu' # th

UnderFailureLock ==
    \/ Sweep
    \/ \E th \in Threads : pc[th] = "markFailed" /\ pc'[th] # "markFailed"
\* what the registry lock, the topic locks, the hub's lock and the send
\* mutexes guard is left alone
FailureLockLeaf ==
    UnderFailureLock => UNCHANGED <<hub, tmMu, topics, tobjs, sendMu, writing>>

FullMenu == {Req("publish", "T", DataV1, TRUE),
             Req("sendWithoutSave", "T", DataV1, FALSE)}

InitFull ==
    RunningWith({2}, FALSE, NoRow, MaxFullRequests, [i \in 1..FailedChanCap |-> 2])

NextFull ==
    \/ publishHandler(1, FullMenu)
    \/ sendWithoutSaveHandler(1, FullMenu)
    \/ Pipeline
    \/ SockFail(2)

SpecFull == InitFull /\ [][NextFull]_vars

\* session c's Topic.Publish has returned a failed client and the
\* failed-peer channel is full
EmitsOnFull(c) ==
    /\ pc[RL(c)] = "pIter" /\ h[RL(c)].rest = {}
    /\ h[RL(c)].failed # <<>>
    /\ Len(failedChan) = FailedChanCap
\* the publish goes on: the event is dropped, the handler acknowledges or
\* returns
DropsAndReturns ==
    \A c \in Clients :
        (EmitsOnFull(c) /\ pc'[RL(c)] # pc[RL(c)]) =>
            /\ failedChan' = failedChan
            /\ pc'[RL(c)] = IF reqs[h[RL(c)].id].ack THEN "sLock" ELSE "pRet"
            /\ pipe'[h[RL(c)].id].tm = "ok"
\* with the channel full the step is there to take
NeverBlocks == \A c \in Clients : EmitsOnFull(c) => ENABLED TopicPublishEnd(c)

Versions == (0 - 1)..(MaxRequests + 1)

\* C34: on every topic, GetSchemaByVersion(v) returns the descriptor stored
\* as version v for v in 0..latestVersion and fails for every other v
C34_SchemaByVersion ==
    \A o \in 1..Len(tobjs) : \A v \in Versions :
        LET t == tobjs[o]
            r == GetSchemaByVersion(t, v)
        IN IF v \in 0..t.latest
           THEN ~r.err /\ r.version = v /\ r.schema = t.schemas[v]
           ELSE r.err

(***************************************************************************)
(* Unregistering with a store whose statements fail: session 1 unregisters *)
(* topic T, session 2 subscribes, publishes and gets.                      *)
(***************************************************************************)
UnregisterFaultMenu == {Req("unregisterTopic", "T", RawNil, FALSE),
                        Req("subscribe", "T", RawNil, TRUE),
                        Req("publish", "T", DataV1, TRUE),
                        Req("get", "T", RawNil, FALSE)}

InitUnregisterFault == Running({2}, TRUE, NoRow, MaxTopicRequests)

NextUnregisterFault ==
    \/ unregisterTopicHandler(1, UnregisterFaultMenu)
    \/ StorageDelete(1)
    \/ subscribeHandler(2, UnregisterFaultMenu)
    \/ TopicSubscribe(2)
    \/ publishHandler(2, UnregisterFaultMenu)
    \/ getHandler(2, UnregisterFaultMenu)
    \/ Pipeline

SpecUnregisterFault == InitUnregisterFault /\ [][NextUnregisterFault]_vars

\* the Delete of unregisterTopic request u has failed
DeleteFailed(u) ==
    /\ reqs[u].action = "unregisterTopic"
    /\ pc[RL(reqs[u].c)] # "unregDelete" \/ h[RL(reqs[u].c)].id # u
    /\ \/ h[RL(reqs[u].c)].id = u
          /\ h[RL(reqs[u].c)].frame.note =
                "Topic deleted but unable to delete from persistent storage"
       \/ \E i \in Responses(u) :
             log[reqs[u].c][i].f.note =
                "Topic deleted but unable to delete from persistent storage"
\* request r, read after the removal, was refused: no topic-manager call
\* succeeded, no Delivery was written, no response says 200
Refused(r) ==
    /\ Errored(r)
    /\ pipe[r].tm # "ok"
    /\ \A c \in Clients : Entries(c, LAMBDA e : IsDeliveryOf(r, e)) = {}
    /\ \A i \in Responses(r) : log[reqs[r].c][i].f.code # StatusOK

\* C35: when the Delete of unregisterTopic(T) fails, T is gone from the
\* registry, the registry lock is not held while the Delete runs, the
\* requester gets exactly one response, with code 500, and a subscribe,
\* publish or get on T read after the removal is refused
C35_UnregisterStorageFailure ==
    /\ \A c \in Clients :
          pc[RL(c)] = "unregDelete" =>
              tmMu # RL(c) /\ topics[reqs[h[RL(c)].id].topic] = 0
    /\ \A u \in 1..Len(reqs) :
          DeleteFailed(u) =>
              /\ topics[reqs[u].topic] = 0
              /\ Handled(u) =>
                    /\ Cardinality(Responses(u)) = 1
                    /\ \A i \in Responses(u) :
                          log[reqs[u].c][i].f.code = StatusInternalServerError
              /\ \A r \in (u + 1)..Len(reqs) :
                    (reqs[r].topic = reqs[u].topic
                     /\ reqs[r].action \in {"subscribe", "publish", "get"}
                     /\ Handled(r)) => Refused(r)

\* the Delete failed, the requester has its 500, and a later publish on the
\* topic has been refused
C35_Witness ==
    \E u, r \in 1..Len(reqs) :
        /\ DeleteFailed(u) /\ Handled(u) /\ Responses(u) # {}
        /\ u < r /\ reqs[r].action = "publish" /\ Handled(r)
        /\ Responses(r) # {}

\* C36: no operation of the topic manager returns with the registry lock
\* held: between operations the lock is free, so a later operation can
\* take it
C36_RegistryLockReleased == tmMu = Free

(***************************************************************************)
(* Registering a new name from two sessions: both register U, which is not *)
(* registered, and subscribe to it.                                        *)
(***************************************************************************)
RegisterMenu == {Req("registerTopic", "U", DataV2, TRUE),
                 Req("subscribe", "U", RawNil, FALSE)}

InitRegister == Running({2}, FALSE, NoRow, MaxTopicRequests)

NextRegister ==
    \/ \E c \in Clients :
          \/ registerTopicHandler(c, RegisterMenu)
          \/ RegisterTopicExisting(c)
          \/ RegisterTopicStore(c)
          \/ subscribeHandler(c, RegisterMenu)
          \/ TopicSubscribe(c)
    \/ \E th \in Threads :
          \/ SendToClientLock(th)
          \/ SendToClientWrite(th)

SpecRegister == InitRegister /\ [][NextRegister]_vars

\* the Topic objects made for name n
TopicsNamed(n) == {o \in 1..Len(tobjs) : tobjs[o].name = n}
\* subscribe request s was accepted and its handler has returned
Subscribed(s) ==
    reqs[s].action = "subscribe" /\ pipe[s].tm = "ok" /\ Handled(s)

\* C37: registerTopic requests for one name make one Topic object, and a
\* session whose subscribe on the name was accepted is in the subscriber
\* set of the topic registered under the name
C37_RegisterRace ==
    /\ \A n \in TopicNames : Cardinality(TopicsNamed(n)) <= 1
    /\ \A s \in 1..Len(reqs) :
          Subscribed(s) =>
              /\ topics[reqs[s].topic] # 0
              /\ reqs[s].c \in tobjs[topics[reqs[s].topic]].subs

(***************************************************************************)
(* AsyncPut against Close.  AsyncPut reads the closed flag under the       *)
(* store's mutex, unlocks, and then sends on the queue: here sendTopic is  *)
(* taken in these two steps, so that Close can run between them.           *)
(***************************************************************************)
\* sendTopic up to AsyncPut's closed check.  A store found closed, a topic
\* not found and a call that does not persist go on as in sendTopic.
sendTopicClosedCheck(c) ==
    /\ ~crashed /\ pc[RL(c)] = "pPub" /\ tmMu = Free
    /\ LET id == h[RL(c)].id
           msg == reqs[id]
       IN IF closed \/ topics[msg.topic] = 0 \/ ~PersistOf(TMCall(msg.action))
          THEN sendTopic(c)
          ELSE
            /\ pipe' = [pipe EXCEPT ![id] = [@ EXCEPT !.ctx = "live", !.errCh = MakeChan,
                                                      !.tm = "ok", !.dbCh = MakeChan]]
            /\ pc' = [pc EXCEPT ![RL(c)] = "pPut", ![HW(id)] = "wait"]
            /\ h' = [h EXCEPT ![RL(c)] = [@ EXCEPT !.obj = topics[msg.topic]]]
            /\ UNCHANGED <<sessVars, netVars, regVars, storeVars, reqs, budget,
                           failedChan, crashed, nfail>>

\* AsyncPut's select after the unlock: the send on the queue, or the full
\* queue's default.  A send on a closed channel panics; the panic unwinds
\* the session's goroutine.
AsyncPutSelect(c) ==
    /\ ~crashed /\ pc[RL(c)] = "pPut"
    /\ LET id == h[RL(c)].id
           msg == reqs[id]
       IN IF closed
          THEN /\ pc' = [pc EXCEPT ![RL(c)] = "teardown"]
               /\ UNCHANGED <<pipe, writeQueue>>
          ELSE /\ pc' = [pc EXCEPT ![RL(c)] = "pFan"]
               /\ pipe' = [pipe EXCEPT ![id].dbCh = AsyncPutChan]
               /\ writeQueue' = AsyncPutQueue(id, msg.topic, ParsedData(msg))
    /\ UNCHANGED <<sessVars, h, netVars, regVars, db, closed, database, dbFault, puts,
                   reqs, budget, failedChan, crashed, nfail>>

InitPutClose == Running({2}, FALSE, NoRow, MaxRequests)

NextPutClose ==
    \/ publishHandler(1, CloseMenu)
    \/ IsSchemaMatch(1)
    \/ sendTopicClosedCheck(1)
    \/ AsyncPutSelect(1)
    \/ TopicPublishLock(1)
    \/ TopicPublishNext(1)
    \/ TopicPublishWrite(1)
    \/ TopicPublishEnd(1)
    \/ HandlerReturn(1)
    \/ \E th \in Threads :
          \/ SendToClientLock(th)
          \/ SendToClientWrite(th)
    \/ \E id \in 1..Len(reqs) :
          \/ HandlerWatcherRecv(id)
          \/ HandlerWatcherCtxDone(id)
          \/ SendTopicWatcherRecv(id)
    \/ startWriter
    \/ startWriterQueueClosed
    \/ CloseQueue
    \/ CloseDatabase

SpecPutClose == InitPutClose /\ [][NextPutClose]_vars

\* session c's AsyncPut leaves its select in this step
LeavesSelect(c) == pc[RL(c)] = "pPut" /\ pc'[RL(c)] # "pPut"
SendsOnOpenQueue == \A c \in Clients : LeavesSelect(c) => ~closed

\* C38: an AsyncPut that passed its closed check sends on a queue that is
\* still open: no Close comes between the check and the send
C38_AsyncPutNeverSendsClosed == [][SendsOnOpenQueue]_vars

(***************************************************************************)
(* Two publishers of one topic: session 1 publishes {"m":"v1"} and session *)
(* 2 publishes {"m":"v2"} to topic T, to which session 2 is subscribed.    *)
(***************************************************************************)
OrderMenu == [c \in Clients |->
                 {Req("publish", "T", IF c = 1 THEN DataV1 ELSE DataV2, FALSE)}]

InitOrder == Running({2}, FALSE, NoRow, MaxRequests)

NextOrder ==
    \/ \E c \in Clients : publishHandler(c, OrderMenu[c])
    \/ Pipeline

SpecOrder == InitOrder /\ [][NextOrder]_vars

\* the Delivery frames session c received, in the order of their arrival
DeliveriesTo(c) == SelectSeq(log[c], LAMBDA e : e.f.kind = "delivery" /\ e.res = "ok")
\* two publishes of different values are over, each stored by the writer
BothStored ==
    /\ Len(reqs) = 2 /\ reqs[1].data # reqs[2].data
    /\ \A id \in 1..2 : Handled(id) /\ \E i \in 1..Len(puts) : puts[i] = id
    /\ writeQueue = <<>>
    /\ \A th \in Threads : pc[th] \in {"idle", "none", "run", "done"}

\* C39: when two publishes of different values to one topic are both stored
\* and the system is at rest, the value stored for the topic is the data of
\* the last Delivery each subscriber received
C39_PersistenceFollowsFanOut ==
    BothStored =>
        \A c \in tobjs[topics["T"]].subs :
            /\ DeliveriesTo(c) # <<>>
            /\ db["T"] = DeliveriesTo(c)[Len(DeliveriesTo(c))].f.raw

(***************************************************************************)
(* A topic replaced under an operation: session 2 subscribes to topic T or *)
(* updates its schema while session 1 unregisters T and registers it anew. *)
(***************************************************************************)
StaleMenu == {Req("subscribe", "T", RawNil, TRUE),
              Req("updateSchema", "T", DataN, TRUE),
              Req("unregisterTopic", "T", RawNil, FALSE),
              Req("registerTopic", "T", DataV2, FALSE)}

InitStale == Running({}, FALSE, NoRow, MaxTopicRequests)

NextStale ==
    \/ subscribeHandler(2, StaleMenu)
    \/ updateSchemaHandler(2, StaleMenu)
    \/ TopicSubscribe(2)
    \/ TopicUpdate(2)
    \/ unregisterTopicHandler(1, StaleMenu)
    \/ StorageDelete(1)
    \/ registerTopicHandler(1, StaleMenu)
    \/ RegisterTopicExisting(1)
    \/ RegisterTopicStore(1)
    \/ \E th \in Threads :
          \/ SendToClientLock(th)
          \/ SendToClientWrite(th)

SpecStale == InitStale /\ [][NextStale]_vars

\* session c's Topic.Subscribe or Topic.UpdateSchema runs in this step and
\* the handler answers with success
AnswersSuccess(c) ==
    /\ pc[RL(c)] \in {"subTopic", "updTopic"}
    /\ pc'[RL(c)] # pc[RL(c)]
    /\ pipe'[h[RL(c)].id].tm = "ok"
\* the Topic object session c's operation holds is the one registered
\* under the request's name
OnRegisteredTopic(c) == h[RL(c)].obj = topics[reqs[h[RL(c)].id].topic]
ActsOnRegistered == \A c \in Clients : AnswersSuccess(c) => OnRegisteredTopic(c)

\* C40: a subscribe or updateSchema that is answered with success took
\* effect on the Topic object registered under its name at that moment
C40_ActsOnRegisteredTopic == [][ActsOnRegistered]_vars

====
